---- MODULE Spec2Model ----
(***************************************************************************)
(* Model of two parts of toulbar2:                                         *)
(*   - the WeightedCSPConstraint meta-constraint of tb2globalwcsp.hpp: the *)
(*     protection guard, the four channelling callbacks, propagate(),      *)
(*     assign() and eval();                                                *)
(*   - the cost-table part of the CFN loader of tb2reader.cpp.             *)
(* The channelling code is recursive (a variable operation fires a hook,   *)
(* the hook forwards operations, which fire hooks again), so it is         *)
(* modelled as a call stack of frames; each action runs the code of the    *)
(* frame on top of the stack up to its next call or return.                *)
(***************************************************************************)
EXTENDS Integers, Sequences, FiniteSets, TLC

\* ------------------------------------------------------------- bounds
\* values of a channelled variable are 0..MaxVal
MaxVal == 2
\* number of channelled variables (the arity of the meta-constraint)
Arity == 2
\* number of events a slave's own propagation may raise per root call
MaxReact == 1
\* largest slave cost (the meta-constraint's ub)
MaxCost == 2

\* number of choice points the solver may stack
MaxDepth == 1
\* number of root calls (operations, propagate, eval) the solver makes
MaxCalls == 1

\* number of values of CFN variable 0 (the other variables have one)
MaxDom == 2
\* largest arity of a cost function of the file
MaxArity == 4
\* number of cost functions of the file
MaxFuncs == 2
\* number of tuples listed by a table given as tuples and a default cost
MaxTuples == 2
\* costs of the file are -1..MaxFileCost
MaxFileCost == 1
\* largest cost of a unary table of the file
MaxUnaryCost == 2
\* number of unary cost functions of the file
MaxUnary == 3
\* the model's value of MAX_COST
MAX_COST == 1000

\* ---------------------------------------------------------- constants
MEDIUM_COST == 3
MasterIdx == 0
NARYPROJECTIONSIZE == 3
Null == -1

VARIABLES
    cfg,          \* the construction parameters of the meta-constraint
    dom,          \* dom[w][x]: current domain of variable x of WCSP w
    active,       \* active[w]: WCSP w's isactivatePropagate() flag
    guard,        \* _protected_, the ToulBar2 feature flags, their saved copies
    hooks,        \* ToulBar2::setvalue/removevalue/setmin/setmax are installed
    connVar,      \* connVar[i]: connected(i), scope position i is linked
    nonassigned,  \* StoreInt nonassigned
    slb,          \* slb[w]: lower bound of slave w
    storeStack,   \* Store: the saved backtrackable states, depth = Len
    stack,        \* call stack, top = last
    exc,          \* a Contradiction is in flight
    budget,       \* events the slaves' own propagation may still raise
    calls,        \* root calls the solver has made
    obs,          \* observations of the run (history, no effect on the run)
    ld,           \* the CFN loader: the WCSP being built and what the file said
    rd            \* a file reader: its position in the file and what it built

chanVars == <<cfg, dom, active, guard, hooks, connVar, nonassigned, slb,
              storeStack, stack, exc, budget, calls, obs>>
vars == <<chanVars, ld, rd>>

Values == 0..MaxVal
Scope == 0..(Arity - 1)
WIds == 0..2
Kinds == {"assign", "remove", "increase", "decrease"}

\* ------------------------------------------------- the feature flags
\* values written by protect(): the features are switched off
Disabled ==
    [preprocessFunctional |-> 0, elimDegree |-> -1,
     elimDegree_preprocessing |-> -1, elimDegree_ |-> -1,
     elimDegree_preprocessing_ |-> -1, DEE |-> 0, DEE_ |-> 0,
     FullEAC |-> FALSE, RASPS |-> FALSE, useRASPS |-> 0]

\* the user's options when the meta-constraint is built
UserFlags ==
    [preprocessFunctional |-> 1, elimDegree |-> 3,
     elimDegree_preprocessing |-> 2, elimDegree_ |-> 3,
     elimDegree_preprocessing_ |-> 2, DEE |-> 1, DEE_ |-> 1,
     FullEAC |-> TRUE, RASPS |-> TRUE, useRASPS |-> 1]

\* WeightedCSPConstraint::protect(master), on the guard record g
protect(g, master) ==
    [protected |-> TRUE,
     saved |-> IF master THEN g.ToulBar2 ELSE g.saved,
     ToulBar2 |-> Disabled]

\* unprotect() that clears _protected_ and forgets to write the flags back
unprotect_NoRestore(g) == [g EXCEPT !.protected = FALSE]

\* WeightedCSPConstraint::unprotect(), on the guard record g
unprotect(g) ==
    IF g.protected
    THEN [protected |-> FALSE, saved |-> g.saved, ToulBar2 |-> g.saved]
    ELSE g

\* ------------------------------------------------ the family of WCSPs
problem == IF cfg.hasP THEN cfg.pidx ELSE Null
negproblem == IF cfg.hasN THEN cfg.nidx ELSE Null
Slaves == {problem, negproblem} \ {Null}

\* keys of the map WeightedCSPConstraints in ascending order; every key
\* maps to the one meta-constraint of the model
WeightedCSPConstraints ==
    IF Slaves = {} THEN << >>
    ELSE IF Cardinality(Slaves) = 1 THEN << CHOOSE s \in Slaves : TRUE >>
    ELSE << 1, 2 >>

\* upper bound given to a slave by the constructor
ubOf(w) == IF w = problem THEN cfg.ub ELSE (0 - cfg.lb) + cfg.negCost + 1

\* AbstractNaryConstraint::connected(): some scope position is linked
connected == \E i \in Scope : connVar[i]

assigned(w, x) == Cardinality(dom[w][x]) = 1

\* WeightedCSPConstraint::universal()
universal ==
    /\ cfg.isfinite
    /\ cfg.hasP
    /\ cfg.hasN
    /\ slb[problem] >= cfg.lb
    /\ slb[negproblem] > (0 - cfg.ub) + cfg.negCost

\* degree of master variable i: this constraint, and the master's other
\* cost functions on it
getDegree(i) == (IF connVar[i] THEN 1 ELSE 0) + (IF cfg.extra THEN 1 ELSE 0)

\* WeightedCSPConstraint::canbeDeconnected()
canbeDeconnected ==
    \A i \in Scope : ~(~assigned(MasterIdx, i) /\ getDegree(i) > 1)

\* ------------------------------------------- variable operations
Min(S) == CHOOSE m \in S : \A y \in S : m <= y
Max(S) == CHOOSE m \in S : \A y \in S : m >= y

NoOp == [t |-> "noop", nd |-> {}, ek |-> "assign", ev |-> 0]
Fail == [t |-> "fail", nd |-> {}, ek |-> "assign", ev |-> 0]
Change(nd, ek, ev) == [t |-> "change", nd |-> nd, ek |-> ek, ev |-> ev]

IncEffect(d, v) ==
    IF v <= Min(d) THEN NoOp
    ELSE IF v > Max(d) THEN Fail
    ELSE LET ni == Min({u \in d : u >= v}) IN
         IF ni = Max(d) THEN Change({ni}, "assign", ni)
         ELSE Change({u \in d : u >= ni}, "increase", ni)

DecEffect(d, v) ==
    IF v >= Max(d) THEN NoOp
    ELSE IF v < Min(d) THEN Fail
    ELSE LET ns == Max({u \in d : u <= v}) IN
         IF ns = Min(d) THEN Change({ns}, "assign", ns)
         ELSE Change({u \in d : u <= ns}, "decrease", ns)

\* what assign/remove/increase/decrease(v) does to a variable of domain d:
\* nothing, a Contradiction, or a new domain and the event its hook gets
Effect(d, kind, v) ==
    CASE kind = "assign" ->
            IF d = {v} THEN NoOp
            ELSE IF v \notin d THEN Fail
            ELSE Change({v}, "assign", v)
      [] kind = "increase" -> IncEffect(d, v)
      [] kind = "decrease" -> DecEffect(d, v)
      [] kind = "remove" ->
            IF v \notin d THEN NoOp
            ELSE IF d = {v} THEN Fail
            ELSE IF v = Min(d) THEN IncEffect(d, v + 1)
            ELSE IF v = Max(d) THEN DecEffect(d, v - 1)
            ELSE Change(d \ {v}, "remove", v)

\* ---------------------------------------------------------- the store
\* the backtrackable part of the state
Snapshot ==
    [dom |-> dom, slb |-> slb, connVar |-> connVar, nonassigned |-> nonassigned]

\* Store::restore(depth) on store st with current backtrackable state cur
restore(st, depth, cur) ==
    IF Len(st) > depth
    THEN [st |-> SubSeq(st, 1, depth), bt |-> st[depth + 1]]
    ELSE [st |-> st, bt |-> cur]

\* ---------------------------------------------------------- frames
Frame(proc, w, x, kind, v, pc, k) ==
    [proc |-> proc, w |-> w, x |-> x, kind |-> kind, v |-> v, pc |-> pc, k |-> k]

Top == stack[Len(stack)]

\* an activation that never returns to its caller
Pop_Stay == stack

\* the running activation returns
Pop == SubSeq(stack, 1, Len(stack) - 1)
SetTop(f) == [stack EXCEPT ![Len(stack)] = f]
Call(f, g) == Append(SetTop(f), g)

Running == stack # << >> /\ ~exc
InCallback == \E i \in 1..Len(stack) : stack[i].proc = "cb"

NoExit == [valid |-> FALSE]

\* ------------------------------------------------ the CFN loader: data
CostVals == (0 - 1)..MaxFileCost
DomSize(i) == IF i = 0 THEN MaxDom ELSE 1

\* tuples over the scope 0..arity-1, and the complete assignments
Tuples(arity) ==
    { t \in [1..arity -> 0..(MaxDom - 1)] :
         \A j \in 1..arity : t[j] < DomSize(j - 1) }
Assignments == Tuples(MaxArity)

RECURSIVE Card(_)
Card(arity) == IF arity = 0 THEN 1 ELSE Card(arity - 1) * DomSize(arity - 1)

\* position of tuple t in a cost table (striding over the scope)
RECURSIVE TupleIdx(_, _)
TupleIdx(t, n) ==
    IF n = 0 THEN 0 ELSE TupleIdx(t, n - 1) * DomSize(n - 1) + t[n]

MinOf(a, b) == IF a < b THEN a ELSE b

RECURSIVE MinSeq(_, _)
MinSeq(q, m) == IF q = << >> THEN m ELSE MinSeq(Tail(q), MinOf(Head(q), m))

\* the medium-cost rule applied to a cost c read under upper bound ub
Medium(c, ub) ==
    IF c >= ub /\ c < MEDIUM_COST * ub /\ ub < MAX_COST \div MEDIUM_COST
    THEN c * MEDIUM_COST
    ELSE c

\* the loader before the first cost function, the header having set ub
LdStart(ub) ==
    [phase |-> "reading", ub |-> ub, lb |-> 0, negCost |-> 0, n |-> 0,
     funcs |-> << >>, file |-> << >>,
     scaled |-> FALSE, dup |-> FALSE, posMin |-> FALSE]

\* the tuple:cost loop of readFunctionCostTable on the entries toks
RECURSIVE SparseTable(_, _, _, _, _)
SparseTable(acc, toks, arity, dflt, ub) ==
    IF toks = << >> \/ acc.err THEN acc
    ELSE LET cost == Medium(Head(toks).cost, ub)
             tableIdx == TupleIdx(Head(toks).tup, arity)
         IN IF acc.vec[tableIdx] # dflt
            THEN [acc EXCEPT !.err = TRUE]
            ELSE SparseTable([err |-> FALSE,
                              vec |-> [acc.vec EXCEPT ![tableIdx] = cost],
                              nb |-> acc.nb + 1,
                              mn |-> MinOf(cost, acc.mn)],
                             Tail(toks), arity, dflt, ub)

\* CFNStreamReader::readFunctionCostTable: the table of a function of
\* arity 1..3, given as all its costs (all) or as tuples toks with default
readFunctionCostTable(arity, all, defaultCost, toks, costs, ub) ==
    LET dflt == Medium(defaultCost, ub)
        idxs == 0..(Card(arity) - 1)
        sp == SparseTable([err |-> FALSE, vec |-> [i \in idxs |-> dflt],
                           nb |-> 0, mn |-> MAX_COST], toks, arity, dflt, ub)
        full == [i \in idxs |-> Medium(costs[i + 1], ub)]
        vec == IF all THEN full ELSE sp.vec
        minCost == IF all THEN MinSeq([j \in 1..Card(arity) |-> full[j - 1]], MAX_COST)
                   ELSE IF sp.nb < Card(arity) THEN MinOf(dflt, sp.mn)
                   ELSE sp.mn
    IN [err |-> (~all) /\ sp.err,
        costs |-> [i \in idxs |-> vec[i] - minCost],
        minCost |-> minCost]

\* the tuple:cost loop of readNaryCostFunction: a map from tuples to costs
RECURSIVE NaryTuples(_, _, _, _)
NaryTuples(acc, toks, arity, ub) ==
    IF toks = << >> \/ acc.err THEN acc
    ELSE LET cost == Medium(Head(toks).cost, ub)
             t == TupleIdx(Head(toks).tup, arity)
         IN IF t \in DOMAIN acc.map
            THEN [acc EXCEPT !.err = TRUE]
            ELSE NaryTuples([err |-> FALSE,
                             map |-> [u \in DOMAIN acc.map \cup {t} |->
                                        IF u = t THEN cost ELSE acc.map[u]],
                             mn |-> MinOf(cost, acc.mn)],
                            Tail(toks), arity, ub)

\* the costs posted for a full list by readNaryCostFunction
NaryFullPosted(costs, minCost) == costs

\* CFNStreamReader::readNaryCostFunction: a function of arity 4 or more
readNaryCostFunction(arity, all, defaultCost, toks, costs, ub) ==
    LET dflt == Medium(defaultCost, ub)
        idxs == 0..(Card(arity) - 1)
        sp == NaryTuples([err |-> FALSE, map |-> << >>, mn |-> MAX_COST],
                         toks, arity, ub)
        nbTuples == Cardinality(DOMAIN sp.map)
        spMin == IF nbTuples < Card(arity) THEN MinOf(sp.mn, dflt) ELSE sp.mn
        fullMin == MinSeq(costs, MAX_COST)
        posted == NaryFullPosted(costs, fullMin)
    IN IF all
       THEN [err |-> FALSE,
             costs |-> [i \in idxs |-> posted[i + 1]],
             minCost |-> fullMin]
       ELSE [err |-> sp.err,
             costs |-> [i \in idxs |-> IF i \in DOMAIN sp.map
                                       THEN sp.map[i] - spMin
                                       ELSE dflt - spMin],
             minCost |-> spMin]

\* a 0-ary reader that moves the cost to negCost without testing its sign
ZeroAryShift_NoTest(zeroAryCost) == [neg |-> 0 - zeroAryCost, cost |-> 0]

\* the negative part of a 0-ary cost goes to negCost, the rest to lb
ZeroAryShift(zeroAryCost) ==
    IF zeroAryCost < 0
    THEN [neg |-> 0 - zeroAryCost, cost |-> 0]
    ELSE [neg |-> 0, cost |-> zeroAryCost]

\* what the file says: the cost of every tuple of a table
FileTable(arity, all, defaultCost, toks, costs) ==
    [i \in 0..(Card(arity) - 1) |->
        IF all THEN costs[i + 1]
        ELSE IF \E j \in 1..Len(toks) : TupleIdx(toks[j].tup, arity) = i
             THEN toks[Min({j \in 1..Len(toks) : TupleIdx(toks[j].tup, arity) = i})].cost
             ELSE defaultCost]

\* some cost of the table is changed by the medium-cost rule
Rescaled(all, defaultCost, toks, costs, ub) ==
    IF all THEN \E j \in 1..Len(costs) : Medium(costs[j], ub) # costs[j]
    ELSE \/ Medium(defaultCost, ub) # defaultCost
         \/ \E j \in 1..Len(toks) : Medium(toks[j].cost, ub) # toks[j].cost

\* some tuple is listed twice
Redefined(toks, arity) ==
    \E j, k \in 1..Len(toks) :
        j # k /\ TupleIdx(toks[j].tup, arity) = TupleIdx(toks[k].tup, arity)

\* the inputs: the text of one table of the file
TableTexts(arity) ==
    { x \in [all : BOOLEAN, defaultCost : CostVals,
             toks : UNION { [1..n -> [tup : Tuples(arity), cost : CostVals]] :
                            n \in 0..MaxTuples },
             costs : UNION { [1..n -> CostVals] : n \in {0, Card(arity)} }] :
        /\ x.all => (x.defaultCost = 0 /\ x.toks = << >> /\ Len(x.costs) = Card(arity))
        /\ (~x.all) => (x.costs = << >>) }

\* ------------------------------------------------ the file readers: data
\* number of variables a file declares
MaxFileVars == 2
\* number of cost functions a file lists
MaxFileFuncs == 2

\* a function of the file has no name or the name f
FuncNames == {"", "f"}
\* CFN, legacy wcsp, UAI, WCNF and OPB
Formats == {"cfn", "wcsp", "uai", "wcnf", "opb"}

\* the reader before the first token; the other formats are followed from
\* their first cost function on, their Boolean variables being declared
RdStart(format, mult) ==
    [format |-> format,
     phase |-> IF format = "cfn" THEN "header" ELSE "functions",
     JSONMode |-> FALSE, costMultiplier |-> mult, mult0 |-> mult,
     mustbe |-> "",
     vars |-> IF format = "cfn" THEN << >> ELSE [j \in 1..MaxFileVars |-> 2],
     posted |-> << >>, tableShares |-> << >>, negCost |-> 0, n |-> 0,
     yelled |-> FALSE, late |-> FALSE, refs |-> << >>,
     inclowerbound |-> 0, tautologies |-> 0, nbclauses |-> 0]

\* no file is being read
RdIdle == RdStart("cfn", 1)

\* costVecSize: the product of the initial domain sizes of a scope
RECURSIVE costVecSize(_, _)
costVecSize(vs, scope) ==
    IF scope = << >> THEN 1
    ELSE vs[Head(scope) + 1] * costVecSize(vs, Tail(scope))

\* readFunctionCostTable on a full list of costs: the minimum is subtracted
\* from every cost
FullCostTable(costs) ==
    LET scaled == [j \in 1..Len(costs) |-> Medium(costs[j], MAX_COST)]
        minCost == MinSeq(scaled, MAX_COST)
    IN [costs |-> [j \in 1..Len(costs) |-> scaled[j] - minCost],
        minCost |-> minCost]

\* the test made on a function that shares the table of scope
SameSizes(vs, scope, other) ==
    /\ Len(other) = Len(scope)
    /\ \A j \in 1..Len(scope) : vs[other[j] + 1] = vs[scope[j] + 1]

\* exit(EXIT_FAILURE) after an error message
RdFail(r) == [r EXCEPT !.phase = "exit", !.yelled = TRUE]

\* a variable or a cost function is created
RdCreated(r) == [r EXCEPT !.late = @ \/ r.yelled]

\* the cost functions posted on the scopes registered for the table of name
RECURSIVE postShared(_, _, _, _, _)
postShared(r, ns, name, scope, t) ==
    IF ns = << >> \/ r.phase = "exit" THEN r
    ELSE IF Head(ns).of # name THEN postShared(r, Tail(ns), name, scope, t)
    ELSE IF SameSizes(r.vars, scope, Head(ns).scope)
    THEN postShared([RdCreated(r) EXCEPT
                        !.posted = Append(@, [name |-> Head(ns).name,
                                              scope |-> Head(ns).scope,
                                              costs |-> t.costs, shared |-> TRUE]),
                        !.negCost = @ - t.minCost],
                    Tail(ns), name, scope, t)
    ELSE RdFail(r)

\* the table of a function of arity 1 to 3 is read and posted, with the
\* functions that asked for it
postTable(r, name, scope, costs) ==
    LET t == FullCostTable(costs)
        isShared == name # "" /\ \E j \in 1..Len(r.tableShares) :
                                     r.tableShares[j].of = name
        r1 == [RdCreated(r) EXCEPT
                 !.negCost = @ - t.minCost,
                 !.posted = Append(@, [name |-> name, scope |-> scope,
                                       costs |-> t.costs, shared |-> FALSE])]
    IN IF isShared THEN postShared(r1, r1.tableShares, name, scope, t) ELSE r1

\* the first table posted under name, if any
Defined(r, name) == {j \in 1..Len(r.posted) : r.posted[j].name = name /\ ~r.posted[j].shared}

\* one cost function of the functions section of a CFN file
readCostFunction(r, fn) ==
    LET arity == Len(fn.scope)
        prev == Defined(r, fn.of)
        ref == [scope |-> fn.scope, of |-> fn.of, prev |-> prev # {},
                table |-> IF prev = {} THEN << >> ELSE r.posted[Min(prev)].costs,
                sizes |-> IF prev = {} THEN TRUE
                          ELSE SameSizes(r.vars, r.posted[Min(prev)].scope, fn.scope)]
        shared == [r EXCEPT !.tableShares = Append(@, [of |-> fn.of, name |-> fn.name,
                                                       scope |-> fn.scope]),
                            !.refs = Append(@, ref)]
        r1 == CASE fn.kind = "table" -> postTable(r, fn.name, fn.scope, fn.costs)
                [] fn.kind = "extra" ->
                      RdFail([r EXCEPT !.negCost = @ -
                                FullCostTable(SubSeq(fn.costs, 1, Len(fn.costs) - 1)).minCost])
                [] fn.kind = "reuse" ->
                      IF arity <= 1 \/ arity > NARYPROJECTIONSIZE
                      THEN RdFail(shared) ELSE shared
                [] fn.kind = "reuseBad" ->
                      IF r.JSONMode THEN RdFail(shared)
                      ELSE postTable([r EXCEPT !.yelled = TRUE],
                                     fn.name, fn.scope, fn.costs)
    IN [r1 EXCEPT !.n = @ + 1]

\* scopes over the n variables declared
FileScopes(n) == UNION { [1..k -> 0..(n - 1)] : k \in 1..NARYPROJECTIONSIZE }

\* a full list of c costs: all 1, or 0 then 1
CostList(p, c) == [j \in 1..c |-> IF p = 2 /\ j = 1 THEN 0 ELSE 1]

\* the texts of one cost function over the variables vs: a table, a table
\* with one cost too many, the name of a table followed by a closing brace
\* or by something else and a list of costs
FunctionTexts(vs) ==
    UNION { { [name |-> nm, scope |-> sc, kind |-> k, of |-> "f",
               costs |-> CostList(p, costVecSize(vs, sc)
                                     + (IF k = "extra" THEN 1 ELSE 0))] :
                 nm \in FuncNames, k \in {"table", "extra", "reuse", "reuseBad"},
                 p \in 1..2 } :
            sc \in FileScopes(Len(vs)) }

\* ------------------------------------------------------ observations
NoRootEv == [x |-> 0, kind |-> "assign", v |-> 0]
ZeroCount == [w \in WIds |-> 0]

ObsInit(flags) ==
    [rootW |-> Null, rootEv |-> NoRootEv, rootOp |-> NoRootEv, pre |-> dom,
     reentry |-> FALSE,
     fwdCount |-> ZeroCount, reactedOn |-> {}, callFlags |-> flags,
     cleaned |-> {}, lastCbExit |-> NoExit, lastPropExit |-> NoExit,
     evalReport |-> NoExit, assertFail |-> FALSE,
     lastAssignExit |-> NoExit, fwdOrder |-> << >>,
     lastAssignBranch |-> NoExit]

\* obs at the start of a root call
ObsRootCall ==
    [obs EXCEPT !.rootW = Null, !.rootEv = NoRootEv, !.rootOp = NoRootEv,
                !.pre = dom,
                !.reentry = FALSE, !.fwdCount = ZeroCount, !.reactedOn = {},
                !.callFlags = guard.ToulBar2, !.cleaned = {},
                !.lastCbExit = NoExit, !.lastPropExit = NoExit,
                !.evalReport = NoExit, !.lastAssignExit = NoExit,
                !.lastAssignBranch = NoExit,
                !.fwdOrder = << >>]

\* obs when a callback applies operation (x, kind, v) to WCSP t
ObsApply(o, t, x, kind, v) ==
    [o EXCEPT !.reentry = @ \/ (t = o.rootW),
              !.fwdCount = IF [x |-> x, kind |-> kind, v |-> v] = o.rootEv
                           THEN [@ EXCEPT ![t] = @ + 1] ELSE @]

\* obs when a callback frame f leaves, with guard g, clean-ups c, exception e
ObsCbExit(o, f, how, fwdT, g, c, e, act) ==
    [o EXCEPT !.cleaned = c,
              !.lastCbExit =
                 [valid |-> TRUE, w |-> f.w, x |-> f.x, kind |-> f.kind,
                  v |-> f.v, how |-> how, fwdT |-> fwdT,
                  prot |-> g.protected, cleaned |-> c, exc |-> e,
                  flagsOk |-> (g.ToulBar2 = o.callFlags),
                  root |-> ~(\E i \in 1..(Len(stack) - 1) : stack[i].proc = "cb"),
                  dom |-> dom, conn |-> connected, activeW |-> act[f.w],
                  pre |-> o.pre, op |-> o.rootOp]]

ObsPropExit(o, how, g, c) ==
    [o EXCEPT !.cleaned = c,
              !.lastPropExit =
                 [valid |-> TRUE, how |-> how, prot |-> g.protected,
                  cleaned |-> c, flagsOk |-> (g.ToulBar2 = o.callFlags),
                  univ |-> universal, conn |-> connected]]

\* obs when assign(i) returns without having called propagate(): linked says
\* position i was connected, conn that some position still is
ObsAssignExit(o, i, linked, conn) ==
    [o EXCEPT !.lastAssignExit =
                 [valid |-> TRUE, i |-> i, linked |-> linked, univ |-> universal,
                  conn |-> conn]]

\* obs when assign(i) has chosen what to do, with na variables left
\* unassigned: "skip", "universal", "project" or "propagate"
ObsAssignBranch(o, i, branch, na) ==
    [o EXCEPT !.lastAssignBranch =
                 [valid |-> TRUE, i |-> i, branch |-> branch, na |-> na,
                  before |-> nonassigned, linked |-> connVar[i],
                  univ |-> universal, sd |-> cfg.strongDuality]]

\* obs when the callback on top of the stack, number k of its loop, forwards
\* the operation to slave t: the forwards of the first callback are listed
ObsForward(o, k, t) ==
    IF \E i \in 1..(Len(stack) - 1) : stack[i].proc = "cb" THEN o
    ELSE [o EXCEPT !.fwdOrder = Append(@, [k |-> k, t |-> t])]

\* ---------------------------------------------------------------- Init
Cfgs ==
    { c \in [hasP : BOOLEAN, hasN : BOOLEAN, pidx : {1, 2}, nidx : {1, 2},
             strongDuality : BOOLEAN, lb : {MaxCost - 1}, ub : {MaxCost},
             negCost : {MaxCost}, isfinite : {TRUE}, extra : BOOLEAN,
             flags : {UserFlags}] :
        /\ c.hasP \/ c.hasN
        /\ c.pidx # c.nidx
        /\ c.lb < c.ub
        /\ (~(c.hasP /\ c.hasN)) => (c.pidx = 1) }

\* the state after construction (dec = FALSE), or after a first propagate()
\* that found the bound of the slave reached and deconnected (dec = TRUE)
ChanStartOn(c, dec, D) ==
    /\ cfg = c
    /\ connVar = [i \in Scope |-> ~dec]
    /\ slb = [w \in WIds |-> IF dec /\ w = c.pidx THEN c.lb ELSE 0]
    /\ dom = [w \in WIds |-> [x \in Scope |-> D]]
    /\ active = [w \in WIds |-> TRUE]
    /\ guard = [protected |-> FALSE, saved |-> Disabled, ToulBar2 |-> c.flags]
    /\ hooks = TRUE
    /\ nonassigned = Arity
    /\ storeStack = << >>
    /\ stack = << >>
    /\ exc = FALSE
    /\ budget = MaxReact
    /\ calls = 0
    /\ obs = ObsInit(c.flags)

\* the same, every variable with its full domain
ChanStart(c, dec) == ChanStartOn(c, dec, Values)

InitChan ==
    /\ \E c \in Cfgs, dec \in BOOLEAN :
          /\ dec => (c.strongDuality /\ c.hasP /\ ~c.extra)
          /\ ChanStart(c, dec)
    /\ ld = LdStart(MAX_COST)
    /\ rd = RdIdle

Idle == stack = << >> /\ ~exc
CanCall == Idle /\ calls < MaxCalls

\* ------------------------------------------------ root calls (the solver)
\* the solver applies an operation to a master variable
MasterVarOp ==
    /\ CanCall
    /\ calls' = calls + 1
    /\ \E x \in Scope, kind \in Kinds, v \in Values :
          stack' = << Frame("op", MasterIdx, x, kind, v, "start", 0) >>
    /\ budget' = MaxReact
    /\ obs' = ObsRootCall
    /\ UNCHANGED <<ld, rd, cfg, dom, active, guard, hooks, connVar, nonassigned, slb,
                   storeStack, exc>>

\* ------------------------------------------------ a variable operation
\* the operation of the top frame acts on its variable and fires the hook
OpStart ==
    /\ Running
    /\ Top.proc = "op" /\ Top.pc = "start"
    /\ LET f == Top
           e == Effect(dom[f.w][f.x], f.kind, f.v)
           g == [f EXCEPT !.pc = "post", !.kind = e.ek, !.v = e.ev]
       IN CASE e.t = "noop" ->
                  /\ stack' = Pop
                  /\ UNCHANGED <<dom, exc, obs>>
            [] e.t = "fail" ->
                  /\ stack' = Pop
                  /\ exc' = TRUE
                  /\ obs' = [obs EXCEPT !.cleaned = {}]
                  /\ UNCHANGED dom
            [] e.t = "change" ->
                  /\ dom' = [dom EXCEPT ![f.w][f.x] = e.nd]
                  /\ stack' = IF hooks
                              THEN Call(g, Frame("cb", f.w, f.x, e.ek, e.ev, "entry", 0))
                              ELSE SetTop(g)
                  /\ obs' = IF InCallback THEN obs
                            ELSE [obs EXCEPT
                                    !.rootW = f.w,
                                    !.rootEv = [x |-> f.x, kind |-> e.ek, v |-> e.ev],
                                    !.rootOp = [x |-> f.x, kind |-> f.kind, v |-> f.v],
                                    !.pre = dom, !.reentry = FALSE,
                                    !.fwdCount = [ZeroCount EXCEPT ![f.w] = 1],
                                    !.fwdOrder = << >>]
                  /\ UNCHANGED exc
    /\ UNCHANGED <<ld, rd, cfg, calls, active, guard, hooks, connVar, nonassigned, slb,
                   storeStack, budget>>

\* after the hook: the master wakes the meta-constraint of an assigned
\* variable
OpPost ==
    /\ Running
    /\ Top.proc = "op" /\ Top.pc = "post"
    /\ LET f == Top IN
       stack' = IF f.w = MasterIdx
                THEN IF f.kind = "assign" /\ connVar[f.x]
                     THEN SetTop(Frame("gcassign", MasterIdx, f.x, "assign", f.v, "start", 0))
                     ELSE Pop
                ELSE Pop
    /\ UNCHANGED <<ld, rd, cfg, calls, dom, active, guard, hooks, connVar, nonassigned, slb,
                   storeStack, exc, budget, obs>>

\* ------------------------------- tb2setvalue/removevalue/setmin/setmax
\* a slave branch that keeps the guard while it wakes the master
EntryGuard_Hold(w, g) == IF w # MasterIdx THEN g ELSE protect(g, TRUE)

\* guard after the entry branch of a callback of WCSP w, before the call
\* it makes on the master variable (slave) or the loop (master)
EntryGuard(w, g) == IF w # MasterIdx THEN unprotect(g) ELSE protect(g, TRUE)

\* a callback end that calls unprotect() whatever the origin
ExitGuard_Release(w, g) == unprotect(g)

\* guard at the normal end of a callback of WCSP w
ExitGuard(w, g) == IF w = MasterIdx THEN unprotect(g) ELSE g

\* a catch block that forgets t's whenContradiction
CatchForward_NoCleanup(g, c, t) ==
    [guard |-> unprotect(g), cleaned |-> c, exc |-> TRUE]

\* the catch block around a forward to slave t
CatchForward(g, c, t) ==
    [guard |-> unprotect(g), cleaned |-> c \cup {t}, exc |-> TRUE]

\* a loop body that has lost its second forward, the one to negproblem
Forwards_OnlyProblem(w, t) == t # Null /\ w # t /\ t = problem

\* the forward to slave t is made by a callback of WCSP w
Forwards(w, t) == t # Null /\ w # t

CbEntry ==
    /\ Running
    /\ Top.proc = "cb" /\ Top.pc = "entry"
    /\ LET f == Top IN
       /\ active' = [active EXCEPT ![f.w] = FALSE]
       /\ guard' = EntryGuard(f.w, guard)
       /\ IF f.w # MasterIdx
          THEN /\ stack' = Call([f EXCEPT !.pc = "masterwait"],
                                Frame("op", MasterIdx, f.x, f.kind, f.v, "start", 0))
               /\ obs' = ObsApply(obs, MasterIdx, f.x, f.kind, f.v)
          ELSE /\ stack' = SetTop([f EXCEPT !.pc = "loop", !.k = 1])
               /\ obs' = [obs EXCEPT !.assertFail = @ \/ guard.protected]
    /\ UNCHANGED <<ld, rd, cfg, calls, dom, hooks, connVar, nonassigned, slb, storeStack,
                   exc, budget>>

\* the master variable operation returned to a slave-originated callback
CbReprotect ==
    /\ Running
    /\ Top.proc = "cb" /\ Top.pc = "masterwait"
    /\ guard' = protect(guard, FALSE)
    /\ stack' = SetTop([Top EXCEPT !.pc = "loop", !.k = 1])
    /\ obs' = [obs EXCEPT !.assertFail = @ \/ guard.protected]
    /\ UNCHANGED <<ld, rd, cfg, calls, dom, active, hooks, connVar, nonassigned, slb,
                   storeStack, exc, budget>>

\* head of the loop over WeightedCSPConstraints
CbLoop ==
    /\ Running
    /\ Top.proc = "cb" /\ Top.pc = "loop"
    /\ Top.k <= Len(WeightedCSPConstraints)
    /\ stack' = IF connected
                THEN SetTop([Top EXCEPT !.pc = "fwdP"])
                ELSE SetTop([Top EXCEPT !.k = @ + 1])
    /\ UNCHANGED <<ld, rd, cfg, calls, dom, active, guard, hooks, connVar, nonassigned, slb,
                   storeStack, exc, budget, obs>>

\* forward to gc.problem: enforceUb, then the variable operation
CbFwdP ==
    /\ Running
    /\ Top.proc = "cb" /\ Top.pc = "fwdP"
    /\ LET f == Top IN
       IF Forwards(f.w, problem)
       THEN \E ubOk \in BOOLEAN :
               IF ubOk
               THEN /\ stack' = Call([f EXCEPT !.pc = "fwdPwait"],
                                     Frame("op", problem, f.x, f.kind, f.v, "start", 0))
                    /\ obs' = [ObsApply(ObsForward(obs, f.k, problem),
                                        problem, f.x, f.kind, f.v)
                                 EXCEPT !.assertFail = @ \/ ~guard.protected]
                    /\ UNCHANGED exc
               ELSE /\ stack' = SetTop([f EXCEPT !.pc = "fwdPwait"])
                    /\ exc' = TRUE
                    /\ obs' = [ObsForward(obs, f.k, problem)
                                 EXCEPT !.cleaned = {},
                                        !.assertFail = @ \/ ~guard.protected]
       ELSE /\ stack' = SetTop([f EXCEPT !.pc = "fwdN"])
            /\ UNCHANGED <<exc, obs>>
    /\ UNCHANGED <<ld, rd, cfg, calls, dom, active, guard, hooks, connVar, nonassigned, slb,
                   storeStack, budget>>

CbFwdPRet ==
    /\ Running
    /\ Top.proc = "cb" /\ Top.pc = "fwdPwait"
    /\ stack' = SetTop([Top EXCEPT !.pc = "fwdN"])
    /\ UNCHANGED <<ld, rd, cfg, calls, dom, active, guard, hooks, connVar, nonassigned, slb,
                   storeStack, exc, budget, obs>>

\* forward to gc.negproblem, if the meta-constraint is still connected
CbFwdN ==
    /\ Running
    /\ Top.proc = "cb" /\ Top.pc = "fwdN"
    /\ LET f == Top IN
       IF connected /\ Forwards(f.w, negproblem)
       THEN \E ubOk \in BOOLEAN :
               IF ubOk
               THEN /\ stack' = Call([f EXCEPT !.pc = "fwdNwait"],
                                     Frame("op", negproblem, f.x, f.kind, f.v, "start", 0))
                    /\ obs' = [ObsApply(ObsForward(obs, f.k, negproblem),
                                        negproblem, f.x, f.kind, f.v)
                                 EXCEPT !.assertFail = @ \/ ~guard.protected]
                    /\ UNCHANGED exc
               ELSE /\ stack' = SetTop([f EXCEPT !.pc = "fwdNwait"])
                    /\ exc' = TRUE
                    /\ obs' = [ObsForward(obs, f.k, negproblem)
                                 EXCEPT !.cleaned = {},
                                        !.assertFail = @ \/ ~guard.protected]
       ELSE /\ stack' = SetTop([f EXCEPT !.pc = "loop", !.k = @ + 1])
            /\ UNCHANGED <<exc, obs>>
    /\ UNCHANGED <<ld, rd, cfg, calls, dom, active, guard, hooks, connVar, nonassigned, slb,
                   storeStack, budget>>

CbFwdNRet ==
    /\ Running
    /\ Top.proc = "cb" /\ Top.pc = "fwdNwait"
    /\ stack' = SetTop([Top EXCEPT !.pc = "loop", !.k = @ + 1])
    /\ UNCHANGED <<ld, rd, cfg, calls, dom, active, guard, hooks, connVar, nonassigned, slb,
                   storeStack, exc, budget, obs>>

\* end of the loop: reactivatePropagate, unprotect for the master, return
CbExit ==
    /\ Running
    /\ Top.proc = "cb" /\ Top.pc = "loop"
    /\ Top.k > Len(WeightedCSPConstraints)
    /\ active' = [active EXCEPT ![Top.w] = TRUE]
    /\ guard' = ExitGuard(Top.w, guard)
    /\ stack' = Pop
    /\ obs' = ObsCbExit(obs, Top, "normal", Null, guard', obs.cleaned, exc, active')
    /\ UNCHANGED <<ld, rd, cfg, calls, dom, hooks, connVar, nonassigned, slb, storeStack,
                   exc, budget>>

\* a forward raised a Contradiction: whenContradiction, unprotect, rethrow
CbCatch ==
    /\ exc
    /\ stack # << >>
    /\ Top.proc = "cb" /\ Top.pc \in {"fwdPwait", "fwdNwait"}
    /\ LET t == IF Top.pc = "fwdPwait" THEN problem ELSE negproblem
           r == CatchForward(guard, obs.cleaned, t)
       IN /\ guard' = r.guard
          /\ exc' = r.exc
          /\ stack' = Pop
          /\ obs' = ObsCbExit(obs, Top, "contradiction", t, r.guard, r.cleaned,
                              r.exc, active)
    /\ UNCHANGED <<ld, rd, cfg, calls, dom, active, hooks, connVar, nonassigned, slb,
                   storeStack, budget>>

\* --------------------------------------- a slave's own propagation
\* the propagation of slave Top.w prunes one of its variables
ReactEvent ==
    /\ Running
    /\ Top.proc = "react"
    /\ budget > 0
    /\ \E y \in Scope, v \in Values :
          /\ Effect(dom[Top.w][y], "remove", v).t = "change"
          /\ stack' = Append(stack, Frame("op", Top.w, y, "remove", v, "start", 0))
          /\ obs' = [obs EXCEPT !.reactedOn = @ \cup {y}]
    /\ budget' = budget - 1
    /\ UNCHANGED <<ld, rd, cfg, calls, dom, active, guard, hooks, connVar, nonassigned, slb,
                   storeStack, exc>>

\* the propagation of slave Top.w raises its lower bound
ReactLb ==
    /\ Running
    /\ Top.proc = "react"
    /\ slb[Top.w] + 1 < ubOf(Top.w)
    /\ slb' = [slb EXCEPT ![Top.w] = @ + 1]
    /\ UNCHANGED <<ld, rd, cfg, calls, dom, active, guard, hooks, connVar, nonassigned,
                   storeStack, stack, exc, budget, obs>>

\* the propagation of slave Top.w finds the slave infeasible
ReactThrow ==
    /\ Running
    /\ Top.proc = "react"
    /\ exc' = TRUE
    /\ stack' = Pop
    /\ obs' = [obs EXCEPT !.cleaned = {}]
    /\ UNCHANGED <<ld, rd, cfg, calls, dom, active, guard, hooks, connVar, nonassigned, slb,
                   storeStack, budget>>

ReactDone ==
    /\ Running
    /\ Top.proc = "react"
    /\ stack' = Pop
    /\ UNCHANGED <<ld, rd, cfg, calls, dom, active, guard, hooks, connVar, nonassigned, slb,
                   storeStack, exc, budget, obs>>

\* ------------------------------------------------------------- eval
\* an eval that leaves out Store::restore(depth)
evalRestore_Skip(st, depth, cur) == [st |-> st, bt |-> cur]

\* Store::restore(depth) at the end of eval
evalRestore(st, depth, cur) == restore(st, depth, cur)

\* the cost newLb that the probed slave stores for the assignment breaks a
\* bound of the constraint: below lb in the slave, or so low in the negated
\* slave that the slave's cost reaches ub
violatesBound_Strict(newLb) ==
    \/ cfg.hasP /\ newLb < cfg.lb
    \/ (~cfg.hasP) /\ newLb < (0 - cfg.ub) + cfg.negCost

violatesBound(newLb) ==
    \/ cfg.hasP /\ newLb < cfg.lb
    \/ (~cfg.hasP) /\ newLb <= (0 - cfg.ub) + cfg.negCost

\* the slave problem's cost for the complete assignment t. The probed WCSP
\* raises a contradiction when its bound is already cut or a value of t is
\* pruned: the stored cost of t is then its upper bound at least. The
\* negated slave stores negCost minus the slave's cost.
slaveCost(t, ubOk, newLb) ==
    LET tgt == IF cfg.hasP THEN problem ELSE negproblem
        forbidden == (~ubOk) \/ (\E i \in Scope : t[i] \notin dom[tgt][i])
        stored == IF forbidden THEN ubOf(tgt) ELSE newLb
    IN IF cfg.hasP THEN stored ELSE cfg.negCost - stored

\* WeightedCSPConstraint::eval(t); ubOk: enforceUb does not throw; newLb:
\* the slave's lower bound after assignLS
eval(t, ubOk, newLb) ==
    LET g1 == protect(guard, TRUE)
        depth == Len(storeStack)
        st1 == Append(storeStack, Snapshot)
        tgt == IF cfg.hasP THEN problem ELSE negproblem
        bad == {i \in Scope : t[i] \notin dom[tgt][i]}
        reached == IF bad = {} THEN Scope ELSE {i \in Scope : i < Min(bad)}
        threw == (~ubOk) \/ bad # {} \/ newLb >= ubOf(tgt)
        wasActive == IF ubOk THEN active[tgt] ELSE TRUE
        act1 == IF ubOk THEN [active EXCEPT ![tgt] = TRUE] ELSE active
        dom1 == IF ubOk
                THEN [dom EXCEPT ![tgt] =
                        [i \in Scope |-> IF i \in reached THEN {t[i]} ELSE dom[tgt][i]]]
                ELSE dom
        slb1 == IF threw THEN slb ELSE [slb EXCEPT ![tgt] = newLb]
        unsat == threw \/ violatesBound(newLb)
        r == evalRestore(st1, depth,
                     [dom |-> dom1, slb |-> slb1, connVar |-> connVar,
                      nonassigned |-> nonassigned])
        act2 == IF wasActive THEN act1 ELSE [act1 EXCEPT ![tgt] = FALSE]
    IN [hooks |-> TRUE, guard |-> unprotect(g1), storeStack |-> r.st,
        dom |-> r.bt.dom, slb |-> r.bt.slb, connVar |-> r.bt.connVar,
        nonassigned |-> r.bt.nonassigned, active |-> act2,
        cost |-> IF unsat THEN "MAX_COST" ELSE "MIN_COST",
        threw |-> threw, cleaned |-> IF threw THEN Slaves ELSE {},
        slaveCost |-> slaveCost(t, ubOk, newLb)]

\* what an eval call returning r changed, seen from its caller
EvalReport(r) ==
    [valid |-> TRUE, threw |-> r.threw, cost |-> r.cost,
     slaveCost |-> r.slaveCost,
     depthSame |-> (Len(r.storeStack) = Len(storeStack)),
     domSame |-> (r.dom = dom), lbSame |-> (r.slb = slb),
     prot |-> r.guard.protected, hooks |-> r.hooks,
     activeSame |-> (r.active = active),
     flagsOk |-> (r.guard.ToulBar2 = guard.ToulBar2)]

EvalArgs ==
    LET tgt == IF cfg.hasP THEN problem ELSE negproblem IN
    { a \in [t : [Scope -> Values], ubOk : BOOLEAN, newLb : 0..(MaxCost + 1)] :
         a.newLb >= slb[tgt] /\ a.newLb <= ubOf(tgt) }

\* the solver evaluates a tuple
Eval ==
    /\ CanCall
    /\ calls' = calls + 1
    /\ \E a \in EvalArgs :
         LET r == eval(a.t, a.ubOk, a.newLb) IN
         /\ hooks' = r.hooks
         /\ guard' = r.guard
         /\ storeStack' = r.storeStack
         /\ dom' = r.dom
         /\ slb' = r.slb
         /\ connVar' = r.connVar
         /\ nonassigned' = r.nonassigned
         /\ active' = r.active
         /\ obs' = [ObsRootCall EXCEPT !.evalReport = EvalReport(r),
                                       !.assertFail = @ \/ guard.protected]
    /\ UNCHANGED <<ld, rd, cfg, stack, exc, budget>>

\* ------------------------------------- WeightedCSPConstraint::assign
AllOff == [i \in Scope |-> FALSE]

\* assign() projects the constraint to an n-ary table: few variables are
\* left and strong duality does not need the constraint any more
projects_Always(na, sd) == na <= NARYPROJECTIONSIZE

projects(na, sd) == na <= NARYPROJECTIONSIZE /\ (~sd \/ na = 0)

GcAssign ==
    /\ Running
    /\ Top.proc = "gcassign"
    /\ LET i == Top.x
           na1 == nonassigned - 1
       IN IF ~connVar[i]
          THEN /\ stack' = Pop
               /\ obs' = ObsAssignBranch(ObsAssignExit(obs, i, FALSE, connected),
                                          i, "skip", nonassigned)
               /\ UNCHANGED <<dom, active, guard, hooks, connVar, nonassigned,
                              slb, storeStack>>
          ELSE IF universal
          THEN /\ connVar' = AllOff
               /\ nonassigned' = na1
               /\ stack' = Pop
               /\ obs' = ObsAssignBranch(ObsAssignExit(obs, i, TRUE, FALSE),
                                          i, "universal", na1)
               /\ UNCHANGED <<dom, active, guard, hooks, slb, storeStack>>
          ELSE IF projects(na1, cfg.strongDuality)
          THEN \E a \in EvalArgs :
                 LET r == eval(a.t, a.ubOk, a.newLb) IN
                 /\ connVar' = AllOff
                 /\ nonassigned' = na1
                 /\ hooks' = r.hooks
                 /\ guard' = r.guard
                 /\ storeStack' = r.storeStack
                 /\ dom' = r.dom
                 /\ slb' = r.slb
                 /\ active' = r.active
                 /\ obs' = [ObsAssignBranch(ObsAssignExit(obs, i, TRUE, FALSE),
                                            i, "project", na1)
                              EXCEPT !.evalReport = EvalReport(r),
                                     !.assertFail = @ \/ guard.protected]
                 /\ stack' = Pop
          ELSE /\ connVar' = [connVar EXCEPT ![i] = FALSE]
               /\ nonassigned' = na1
               /\ stack' = SetTop(Frame("prop", MasterIdx, 0, "assign", 0, "start", 0))
               /\ obs' = ObsAssignBranch(obs, i, "propagate", na1)
               /\ UNCHANGED <<dom, active, guard, hooks, slb, storeStack>>
    /\ UNCHANGED <<ld, rd, cfg, calls, exc, budget>>

\* ---------------------------------- WeightedCSPConstraint::reconnect
AllOn == [i \in Scope |-> TRUE]

\* reconnect() that links the positions again and keeps the count
reconnect_KeepCount(c, n) ==
    IF \A i \in Scope : ~c[i]
    THEN [connVar |-> AllOn, nonassigned |-> n]
    ELSE [connVar |-> c, nonassigned |-> n]

\* reconnect() on links c and count n: only a constraint with no linked
\* position is reset and linked again
reconnect(c, n) ==
    IF \A i \in Scope : ~c[i]
    THEN [connVar |-> AllOn, nonassigned |-> Arity]
    ELSE [connVar |-> c, nonassigned |-> n]

\* the solver reconnects the constraint between two of its calls
Reconnect ==
    /\ Idle
    /\ LET r == reconnect(connVar, nonassigned) IN
       /\ connVar' = r.connVar
       /\ nonassigned' = r.nonassigned
    /\ UNCHANGED <<ld, rd, cfg, calls, dom, active, guard, hooks, slb, storeStack,
                   stack, exc, budget, obs>>

\* ---------------------------------- WeightedCSPConstraint::propagate
\* the master's propagation wakes the meta-constraint
RootPropagate ==
    /\ CanCall
    /\ calls' = calls + 1
    /\ connected
    /\ stack' = << Frame("prop", MasterIdx, 0, "assign", 0, "start", 0) >>
    /\ budget' = MaxReact
    /\ obs' = ObsRootCall
    /\ UNCHANGED <<ld, rd, cfg, dom, active, guard, hooks, connVar, nonassigned, slb,
                   storeStack, exc>>

\* problem->enforceUb(); negproblem->enforceUb(), before the try block
PropStart ==
    /\ Running
    /\ Top.proc = "prop" /\ Top.pc = "start"
    /\ \E ubOk \in BOOLEAN :
          IF ubOk
          THEN /\ stack' = SetTop([Top EXCEPT !.pc = "assigns", !.k = 0])
               /\ UNCHANGED <<exc, obs>>
          ELSE /\ exc' = TRUE
               /\ stack' = Pop
               /\ obs' = ObsPropExit(obs, "contradiction", guard, {})
    /\ UNCHANGED <<ld, rd, cfg, calls, dom, active, guard, hooks, connVar, nonassigned, slb,
                   storeStack, budget>>

\* assigns(): assign(i) for every linked position whose variable is assigned
PropAssigns ==
    /\ Running
    /\ Top.proc = "prop" /\ Top.pc = "assigns"
    /\ LET pending == {i \in Scope : i >= Top.k /\ connVar[i] /\ assigned(MasterIdx, i)}
       IN stack' = IF connected /\ pending # {}
                   THEN Call([Top EXCEPT !.k = Min(pending) + 1],
                             Frame("gcassign", MasterIdx, Min(pending), "assign", 0, "start", 0))
                   ELSE SetTop([Top EXCEPT !.pc = "tryP"])
    /\ UNCHANGED <<ld, rd, cfg, calls, dom, active, guard, hooks, connVar, nonassigned, slb,
                   storeStack, exc, budget, obs>>

\* if (connected()) try { if (problem && active) { protect(); propagate()
PropTryP ==
    /\ Running
    /\ Top.proc = "prop" /\ Top.pc = "tryP"
    /\ IF ~connected
       THEN /\ stack' = Pop
            /\ obs' = ObsPropExit(obs, "normal", guard, obs.cleaned)
            /\ UNCHANGED guard
       ELSE IF cfg.hasP /\ active[problem]
       THEN /\ guard' = protect(guard, TRUE)
            /\ stack' = Call([Top EXCEPT !.pc = "Pwait"],
                             Frame("react", problem, 0, "assign", 0, "run", 0))
            /\ obs' = [obs EXCEPT !.assertFail = @ \/ guard.protected]
       ELSE /\ stack' = SetTop([Top EXCEPT !.pc = "tryN"])
            /\ UNCHANGED <<guard, obs>>
    /\ UNCHANGED <<ld, rd, cfg, calls, dom, active, hooks, connVar, nonassigned, slb,
                   storeStack, exc, budget>>

\* unprotect(); the strong-duality check
PropAfterP ==
    /\ Running
    /\ Top.proc = "prop" /\ Top.pc = "Pwait"
    /\ guard' = unprotect(guard)
    /\ IF cfg.strongDuality /\ connected /\ canbeDeconnected
       THEN IF slb[problem] < cfg.lb
            THEN /\ exc' = TRUE
                 /\ stack' = SetTop([Top EXCEPT !.pc = "thrown"])
                 /\ obs' = [obs EXCEPT !.cleaned = {}]
                 /\ UNCHANGED connVar
            ELSE /\ connVar' = AllOff
                 /\ stack' = SetTop([Top EXCEPT !.pc = "tryN"])
                 /\ UNCHANGED <<exc, obs>>
       ELSE /\ stack' = SetTop([Top EXCEPT !.pc = "tryN"])
            /\ UNCHANGED <<exc, obs, connVar>>
    /\ UNCHANGED <<ld, rd, cfg, calls, dom, active, hooks, nonassigned, slb, storeStack, budget>>

\* if (connected()) if (negproblem && active) { protect(); propagate()
PropTryN ==
    /\ Running
    /\ Top.proc = "prop" /\ Top.pc = "tryN"
    /\ IF connected /\ cfg.hasN /\ active[negproblem]
       THEN /\ guard' = protect(guard, TRUE)
            /\ stack' = Call([Top EXCEPT !.pc = "Nwait"],
                             Frame("react", negproblem, 0, "assign", 0, "run", 0))
            /\ obs' = [obs EXCEPT !.assertFail = @ \/ guard.protected]
       ELSE /\ stack' = Pop
            /\ obs' = ObsPropExit(obs, "normal", guard, obs.cleaned)
            /\ UNCHANGED guard
    /\ UNCHANGED <<ld, rd, cfg, calls, dom, active, hooks, connVar, nonassigned, slb,
                   storeStack, exc, budget>>

PropAfterN ==
    /\ Running
    /\ Top.proc = "prop" /\ Top.pc = "Nwait"
    /\ guard' = unprotect(guard)
    /\ stack' = Pop
    /\ obs' = ObsPropExit(obs, "normal", guard', obs.cleaned)
    /\ UNCHANGED <<ld, rd, cfg, calls, dom, active, hooks, connVar, nonassigned, slb,
                   storeStack, exc, budget>>

\* the catch block of propagate()
CatchPropagate(g, c) == [guard |-> unprotect(g), cleaned |-> c \cup Slaves]

PropCatch ==
    /\ exc
    /\ stack # << >>
    /\ Top.proc = "prop" /\ Top.pc \in {"Pwait", "Nwait", "thrown"}
    /\ LET r == CatchPropagate(guard, obs.cleaned) IN
       /\ guard' = r.guard
       /\ obs' = ObsPropExit(obs, "contradiction", r.guard, r.cleaned)
    /\ stack' = Pop
    /\ UNCHANGED <<ld, rd, cfg, calls, dom, active, hooks, connVar, nonassigned, slb,
                   storeStack, exc, budget>>

\* --------------------------------------------- exceptions and the store
InTry(f) ==
    \/ f.proc = "cb" /\ f.pc \in {"fwdPwait", "fwdNwait"}
    \/ f.proc = "prop" /\ f.pc \in {"Pwait", "Nwait", "thrown"}

\* a Contradiction passes through a frame that has no handler for it
Unwind ==
    /\ exc
    /\ stack # << >>
    /\ ~InTry(Top)
    /\ stack' = Pop
    /\ obs' = CASE Top.proc = "cb" ->
                     ObsCbExit(obs, Top, "contradiction", Null, guard,
                               obs.cleaned, exc, active)
                [] Top.proc = "prop" ->
                     ObsPropExit(obs, "contradiction", guard, obs.cleaned)
                [] OTHER -> obs
    /\ UNCHANGED <<ld, rd, cfg, calls, dom, active, guard, hooks, connVar, nonassigned, slb,
                   storeStack, exc, budget>>

\* the solver opens a choice point
StoreSave ==
    /\ Idle
    /\ Len(storeStack) < MaxDepth
    /\ storeStack' = Append(storeStack, Snapshot)
    /\ UNCHANGED <<ld, rd, cfg, calls, dom, active, guard, hooks, connVar, nonassigned, slb,
                   stack, exc, budget, obs>>

\* the solver catches the Contradiction and backtracks
Backtrack ==
    /\ exc
    /\ stack = << >>
    /\ storeStack # << >>
    /\ LET r == restore(storeStack, Len(storeStack) - 1, Snapshot) IN
       /\ storeStack' = r.st
       /\ dom' = r.bt.dom
       /\ slb' = r.bt.slb
       /\ connVar' = r.bt.connVar
       /\ nonassigned' = r.bt.nonassigned
    /\ exc' = FALSE
    /\ UNCHANGED <<ld, rd, cfg, calls, active, guard, hooks, stack, budget, obs>>

Next ==
    \/ MasterVarOp \/ RootPropagate \/ Eval \/ StoreSave \/ Backtrack
    \/ Reconnect
    \/ OpStart \/ OpPost
    \/ CbEntry \/ CbReprotect \/ CbLoop \/ CbFwdP \/ CbFwdPRet \/ CbFwdN
    \/ CbFwdNRet \/ CbExit \/ CbCatch
    \/ ReactEvent \/ ReactLb \/ ReactThrow \/ ReactDone
    \/ GcAssign
    \/ PropStart \/ PropAssigns \/ PropTryP \/ PropAfterP \/ PropTryN
    \/ PropAfterN \/ PropCatch
    \/ Unwind

Spec == InitChan /\ [][Next]_vars

\* the calls of the solver and every step of the code they start are taken
\* as long as one can be: no call hangs between two of its steps
SpecLive == InitChan /\ [][Next]_vars /\ WF_vars(Next)

\* ---------------------------------- one slave over two Boolean variables
\* a master over x and y, one slave over the same variables and no negated
\* slave, lb = 0 and ub = 1; the slave's costs are not negative, so that
\* negCost = 0; the slave's own cost functions act through its propagation
Boolean == {0, 1}

S5Cfg(sd) ==
    [hasP |-> TRUE, hasN |-> FALSE, pidx |-> 1, nidx |-> 2, strongDuality |-> sd,
     lb |-> 0, ub |-> 1, negCost |-> 0, isfinite |-> TRUE, extra |-> FALSE,
     flags |-> UserFlags]

InitS5 ==
    /\ \E sd \in BOOLEAN : ChanStartOn(S5Cfg(sd), FALSE, Boolean)
    /\ ld = LdStart(MAX_COST)
    /\ rd = RdIdle

\* the steps of the channelling code that a family without a negated slave
\* can take: nothing is forwarded to or propagated in a negated slave, and
\* the slave's lower bound cannot rise and stay below ub = 1
NextS5 ==
    \/ MasterVarOp \/ RootPropagate \/ Eval \/ StoreSave \/ Backtrack
    \/ Reconnect
    \/ OpStart \/ OpPost
    \/ CbEntry \/ CbReprotect \/ CbLoop \/ CbFwdP \/ CbFwdPRet \/ CbFwdN
    \/ CbExit \/ CbCatch
    \/ ReactEvent \/ ReactThrow \/ ReactDone
    \/ GcAssign
    \/ PropStart \/ PropAssigns \/ PropTryP \/ PropAfterP \/ PropTryN
    \/ PropCatch
    \/ Unwind

SpecS5 == InitS5 /\ [][NextS5]_vars

\* ------------------------------------------------ the medium-cost rule
\* upper bounds of a file: small ones, the ones around MAX_COST / MEDIUM_COST
\* where the rule stops scaling, and none given
MedUbs ==
    {1, MaxFileCost + 1, (MAX_COST \div MEDIUM_COST) - 1,
     MAX_COST \div MEDIUM_COST, MAX_COST}

\* the rule as read_legacy has it for the default cost of a ternary table:
\* without the test of ub against MAX_COST / MEDIUM_COST
MediumDefault(c, ub) ==
    IF c >= ub /\ c < MEDIUM_COST * ub THEN c * MEDIUM_COST ELSE c

\* a cost c of the cost range is about to be read under upper bound ub
MedStart(c, ub) == [phase |-> "cost", ub |-> ub, c |-> c, site |-> "", stored |-> 0]

InitMedium ==
    /\ \E c \in 0..MAX_COST, ub \in MedUbs : ld = MedStart(c, ub)
    /\ rd = RdIdle
    /\ ChanStart(CHOOSE c \in Cfgs : c.hasP /\ c.hasN, FALSE)

\* readFunctionCostTable and readNaryCostFunction: a cost or a default cost
MedCfnCost ==
    /\ ld.phase = "cost"
    /\ ld' = [ld EXCEPT !.phase = "stored", !.site = "cfn",
                        !.stored = Medium(ld.c, ld.ub)]
    /\ UNCHANGED <<chanVars, rd>>

\* read_legacy: a cost of a tuple, or the default cost of a unary, binary
\* or n-ary table (cost multiplier K = 1)
MedLegacyCost ==
    /\ ld.phase = "cost"
    /\ ld' = [ld EXCEPT !.phase = "stored", !.site = "legacy",
                        !.stored = Medium(ld.c, ld.ub)]
    /\ UNCHANGED <<chanVars, rd>>

\* read_legacy: the default cost of a ternary table
MedTernaryDefault ==
    /\ ld.phase = "cost"
    /\ ld' = [ld EXCEPT !.phase = "stored", !.site = "ternary default",
                        !.stored = MediumDefault(ld.c, ld.ub)]
    /\ UNCHANGED <<chanVars, rd>>

NextMedium == MedCfnCost \/ MedLegacyCost \/ MedTernaryDefault

SpecMedium == InitMedium /\ [][NextMedium]_vars

\* ------------------------------------------------ the legacy loader
\* the 4-queens example of the format documentation
QueensFile ==
    [name |-> "4-WQUEENS", top |-> 5,
     domsize |-> <<4, 4, 4, 4>>,
     funcs |-> <<
       [arity |-> 2, shared |-> FALSE, scope |-> <<0, 1>>, defval |-> 0,
        ntuples |-> 10,
        tuples |-> <<<<0, 0, 5>>, <<0, 1, 5>>, <<1, 0, 5>>, <<1, 1, 5>>,
                     <<1, 2, 5>>, <<2, 1, 5>>, <<2, 2, 5>>, <<2, 3, 5>>,
                     <<3, 2, 5>>, <<3, 3, 5>>>>],
       [arity |-> 2, shared |-> FALSE, scope |-> <<0, 2>>, defval |-> 0,
        ntuples |-> 8,
        tuples |-> <<<<0, 0, 5>>, <<0, 2, 5>>, <<1, 1, 5>>, <<1, 3, 5>>,
                     <<2, 0, 5>>, <<2, 2, 5>>, <<3, 1, 5>>, <<3, 3, 5>>>>],
       [arity |-> 2, shared |-> FALSE, scope |-> <<0, 3>>, defval |-> 0,
        ntuples |-> 6,
        tuples |-> <<<<0, 0, 5>>, <<0, 3, 5>>, <<1, 1, 5>>, <<2, 2, 5>>,
                     <<3, 0, 5>>, <<3, 3, 5>>>>],
       [arity |-> 2, shared |-> FALSE, scope |-> <<1, 2>>, defval |-> 0,
        ntuples |-> 10,
        tuples |-> <<<<0, 0, 5>>, <<0, 1, 5>>, <<1, 0, 5>>, <<1, 1, 5>>,
                     <<1, 2, 5>>, <<2, 1, 5>>, <<2, 2, 5>>, <<2, 3, 5>>,
                     <<3, 2, 5>>, <<3, 3, 5>>>>],
       [arity |-> 2, shared |-> FALSE, scope |-> <<1, 3>>, defval |-> 0,
        ntuples |-> 8,
        tuples |-> <<<<0, 0, 5>>, <<0, 2, 5>>, <<1, 1, 5>>, <<1, 3, 5>>,
                     <<2, 0, 5>>, <<2, 2, 5>>, <<3, 1, 5>>, <<3, 3, 5>>>>],
       [arity |-> 2, shared |-> FALSE, scope |-> <<2, 3>>, defval |-> 0,
        ntuples |-> 10,
        tuples |-> <<<<0, 0, 5>>, <<0, 1, 5>>, <<1, 0, 5>>, <<1, 1, 5>>,
                     <<1, 2, 5>>, <<2, 1, 5>>, <<2, 2, 5>>, <<2, 3, 5>>,
                     <<3, 2, 5>>, <<3, 3, 5>>>>],
       [arity |-> 1, shared |-> FALSE, scope |-> <<0>>, defval |-> 0,
        ntuples |-> 2,
        tuples |-> <<<<1, 1>>, <<3, 1>>>>],
       [arity |-> 1, shared |-> FALSE, scope |-> <<1>>, defval |-> 0,
        ntuples |-> 2,
        tuples |-> <<<<1, 1>>, <<2, 1>>>>],
       [arity |-> 1, shared |-> FALSE, scope |-> <<2>>, defval |-> 0,
        ntuples |-> 2,
        tuples |-> <<<<1, 1>>, <<2, 1>>>>],
       [arity |-> 1, shared |-> FALSE, scope |-> <<3>>, defval |-> 0,
        ntuples |-> 2,
        tuples |-> <<<<0, 1>>, <<2, 1>>>>] >>]

\* the shared cost function example of the format documentation
AllDiffFile ==
    [name |-> "AllDifferentDecomposedIntoBinaryConstraints", top |-> 1,
     domsize |-> <<4, 4, 4, 4>>,
     funcs |-> <<
       [arity |-> 2, shared |-> TRUE, scope |-> <<0, 1>>, defval |-> 0,
        ntuples |-> 4,
        tuples |-> <<<<0, 0, 1>>, <<1, 1, 1>>, <<2, 2, 1>>, <<3, 3, 1>>>>],
       [arity |-> 2, shared |-> FALSE, scope |-> <<0, 2>>, defval |-> 0,
        ntuples |-> -1,
        tuples |-> <<>>],
       [arity |-> 2, shared |-> FALSE, scope |-> <<0, 3>>, defval |-> 0,
        ntuples |-> -1,
        tuples |-> <<>>],
       [arity |-> 2, shared |-> FALSE, scope |-> <<1, 2>>, defval |-> 0,
        ntuples |-> -1,
        tuples |-> <<>>],
       [arity |-> 2, shared |-> FALSE, scope |-> <<1, 3>>, defval |-> 0,
        ntuples |-> -1,
        tuples |-> <<>>],
       [arity |-> 2, shared |-> FALSE, scope |-> <<2, 3>>, defval |-> 0,
        ntuples |-> -1,
        tuples |-> <<>>] >>]

\* the files read
LegacyFiles == {QueensFile, AllDiffFile}

\* read_legacy after the header and the domain sizes: updateUb(top)
LegStart(file) ==
    [phase |-> "functions", name |-> file.name, ub |-> file.top,
     domsize |-> file.domsize, todo |-> file.funcs, binary |-> << >>,
     unaryconstrs |-> << >>, sharedCosts |-> << >>, unary |-> << >>,
     negCost |-> 0, assignment |-> << >>, cost |-> 0]

\* getDomainInitSize() of variable i of the loader l
LegDom(l, i) == l.domsize[i + 1]

\* position of tuple t in the table of function f, from 1
LegIdx(l, f, t) ==
    IF f.arity = 1 THEN t[1] + 1
    ELSE t[1] * LegDom(l, f.scope[2]) + t[2] + 1

\* a loop over the tuples that stores none of them
LegTuples_Skip(l, f, costs, tuples) == costs

\* the loop over the tuples of a table: each cost goes to its position
RECURSIVE LegTuples(_, _, _, _)
LegTuples(l, f, costs, tuples) ==
    IF tuples = << >> THEN costs
    ELSE LegTuples(l, f,
                   [costs EXCEPT ![LegIdx(l, f, Head(tuples))] =
                                    Medium(Head(tuples)[f.arity + 1], l.ub)],
                   Tail(tuples))

\* the table of function f: the default cost everywhere, then the tuples
LegTable(l, f) ==
    LET size == IF f.arity = 1 THEN LegDom(l, f.scope[1])
                ELSE LegDom(l, f.scope[1]) * LegDom(l, f.scope[2])
    IN LegTuples(l, f, [k \in 1..size |-> Medium(f.defval, l.ub)], f.tuples)

\* a table of the file that is never entered in the list of shared tables
LegShare_Never(l, f, costs) == l.sharedCosts

\* sharedCosts.push_back(costs) for a function declared with a negative arity
LegShare(l, f, costs) ==
    IF f.shared THEN Append(l.sharedCosts, costs) ELSE l.sharedCosts

\* one cost function in extension of arity 1 or 2 of read_legacy
readLegacyFunction(l, f) ==
    LET rest == [l EXCEPT !.todo = Tail(@)] IN
    IF f.arity = 2 /\ f.scope[1] = f.scope[2]
    THEN [l EXCEPT !.phase = "exit"]
    ELSE IF f.ntuples < 0
    THEN LET reusedconstr == (0 - f.ntuples) - 1 IN
         IF reusedconstr >= Len(l.sharedCosts)
         THEN [l EXCEPT !.phase = "exit"]
         ELSE LET costs == l.sharedCosts[reusedconstr + 1] IN
              IF f.arity = 1
              THEN [rest EXCEPT !.unaryconstrs =
                                   Append(@, [var |-> f.scope[1], costs |-> costs])]
              ELSE IF f.defval # 0 \/ Len(costs) > 0
              THEN [rest EXCEPT !.binary =
                                   Append(@, [scope |-> f.scope, costs |-> costs])]
              ELSE rest
    ELSE LET costs == LegTable(l, f)
             r1 == [rest EXCEPT !.sharedCosts = LegShare(l, f, costs)]
         IN IF f.arity = 1
            THEN [r1 EXCEPT !.unaryconstrs =
                               Append(@, [var |-> f.scope[1], costs |-> costs])]
            ELSE IF f.defval # 0 \/ f.ntuples > 0
            THEN [r1 EXCEPT !.binary =
                               Append(@, [scope |-> f.scope, costs |-> costs])]
            ELSE r1

\* a merge that keeps the costs of the last unary function only
LegMergeCosts_Last(first, u, ub) == u

\* the costs of unary function u added to those of the first one on the
\* same variable, value by value
LegMergeCosts(first, u, ub) ==
    [i \in DOMAIN first |->
        IF first[i] < ub
        THEN IF u[i] < ub THEN first[i] + u[i] ELSE ub
        ELSE first[i]]

\* merge unarycosts if they are on the same variable
RECURSIVE LegMerge(_, _, _)
LegMerge(us, newunaryconstrs, ub) ==
    IF us = << >> THEN newunaryconstrs
    ELSE LET u == Head(us)
             seen == {k \in 1..Len(newunaryconstrs) : newunaryconstrs[k].var = u.var}
         IN IF seen = {}
            THEN LegMerge(Tail(us), Append(newunaryconstrs, u), ub)
            ELSE LET k == CHOOSE k \in seen : TRUE IN
                 LegMerge(Tail(us),
                          [newunaryconstrs EXCEPT ![k].costs =
                              LegMergeCosts(@, u.costs, ub)],
                          ub)

\* the complete assignments of the variables of loader l
LegAssignments(l) ==
    { a \in [1..Len(l.domsize) -> 0..3] :
         \A i \in 1..Len(l.domsize) : a[i] < l.domsize[i] }

RECURSIVE LegSum(_, _, _)
LegSum(fs, a, l) ==
    IF fs = << >> THEN 0
    ELSE LET f == Head(fs)
             c == IF "var" \in DOMAIN f
                  THEN f.costs[a[f.var + 1] + 1]
                  ELSE f.costs[a[f.scope[1] + 1] * LegDom(l, f.scope[2])
                               + a[f.scope[2] + 1] + 1]
         IN c + LegSum(Tail(fs), a, l)

\* the cost of complete assignment a in the network posted by loader l
LegCost(l, a) == LegSum(l.binary, a, l) + LegSum(l.unary, a, l)

\* the least cost of a complete assignment, among those below the upper
\* bound; the upper bound when there is none
LegOptimum(l) ==
    LET below == {LegCost(l, a) : a \in LegAssignments(l)} \cap 0..(l.ub - 1)
    IN IF below = {} THEN l.ub ELSE Min(below)

\* the complete assignments of cost below the upper bound, with their cost
LegFeasible(l) ==
    { s \in [a : LegAssignments(l), cost : 0..(l.ub - 1)] : s.cost = LegCost(l, s.a) }

InitLegacy ==
    /\ \E file \in LegacyFiles : ld = LegStart(file)
    /\ rd = RdIdle
    /\ ChanStart(CHOOSE c \in Cfgs : c.hasP /\ c.hasN, FALSE)

LegCanRead == ld.phase = "functions" /\ ld.todo # << >>

\* a binary cost function in extension
LegReadBinary ==
    /\ LegCanRead
    /\ Head(ld.todo).arity = 2
    /\ ld' = readLegacyFunction(ld, Head(ld.todo))
    /\ UNCHANGED <<chanVars, rd>>

\* a unary cost function in extension
LegReadUnary ==
    /\ LegCanRead
    /\ Head(ld.todo).arity = 1
    /\ ld' = readLegacyFunction(ld, Head(ld.todo))
    /\ UNCHANGED <<chanVars, rd>>

\* after the last cost function: the unary functions are merged and posted
LegEnd ==
    /\ ld.phase = "functions" /\ ld.todo = << >>
    /\ ld' = [ld EXCEPT !.phase = "done",
                        !.unary = LegMerge(ld.unaryconstrs, << >>, ld.ub)]
    /\ UNCHANGED <<chanVars, rd>>

\* the cost of one complete assignment in the loaded network
LegEvaluate ==
    /\ ld.phase = "done"
    /\ \E a \in LegAssignments(ld) :
          ld' = [ld EXCEPT !.phase = "evaluated", !.assignment = a,
                           !.cost = LegCost(ld, a)]
    /\ UNCHANGED <<chanVars, rd>>

NextLegacy == LegReadBinary \/ LegReadUnary \/ LegEnd \/ LegEvaluate

SpecLegacy == InitLegacy /\ [][NextLegacy]_vars

\* ------------------------------------------------ arithmetic functions
ArithKeywords == {">=", ">", "<=", "<", "="}
ArithValues == 0..MaxDom
ArithCsts == (0 - MaxDom)..MaxDom
ArithDeltas == 0..MaxDom

\* the cost function of postSupxyc(x, y, cst, delta), soft x >= y + cst, on
\* values vx of x and vy of y, as the format documentation gives it for >=
Supxyc(vx, vy, cst, delta) ==
    LET d == (vy + cst) - vx
        c == IF d <= delta THEN d ELSE MAX_COST
    IN IF c > 0 THEN c ELSE 0

\* the cost functions documented for the keywords, on the scope (x, y)
DocumentedCost(funcName, vx, vy, cst, delta) ==
    LET over(d) == LET c == IF d <= delta THEN d ELSE MAX_COST
                   IN IF c > 0 THEN c ELSE 0
        abs(d) == IF d < 0 THEN 0 - d ELSE d
    IN CASE funcName = ">=" -> over((vy + cst) - vx)
         [] funcName = ">" -> over((vy + cst + 1) - vx)
         [] funcName = "<=" -> over((vx - cst) - vy)
         [] funcName = "<" -> over((vx - cst + 1) - vy)
         [] funcName = "=" -> IF abs((vy + cst) - vx) <= delta
                              THEN abs((vy + cst) - vx) ELSE MAX_COST

\* the calls of postSupxyc made by readGlobalCostFunction for a keyword on
\* the scope (x, y): first tells whether the first argument is x
cfnArithmetic(funcName, cst, delta) ==
    CASE funcName = ">=" -> << [first |-> "x", cst |-> cst, delta |-> delta] >>
      [] funcName = ">" -> << [first |-> "x", cst |-> cst + 1, delta |-> delta] >>
      [] funcName = "<=" -> << [first |-> "x", cst |-> 0 - cst, delta |-> delta] >>
      [] funcName = "<" -> << [first |-> "x", cst |-> (0 - cst) + 1, delta |-> delta] >>
      [] funcName = "=" -> << [first |-> "x", cst |-> cst, delta |-> delta],
                              [first |-> "y", cst |-> 0 - cst, delta |-> delta] >>

\* the calls of postSupxyc made by read_legacy for a keyword on (i, j)
legacyArithmetic(funcName, cst, delta) ==
    CASE funcName = ">=" -> << [first |-> "x", cst |-> cst, delta |-> delta] >>
      [] funcName = ">" -> << [first |-> "x", cst |-> cst + 1, delta |-> delta] >>
      [] funcName = "<=" -> << [first |-> "y", cst |-> 0 - cst, delta |-> delta] >>
      [] funcName = "<" -> << [first |-> "y", cst |-> (0 - cst) + 1, delta |-> delta] >>
      [] funcName = "=" -> << [first |-> "x", cst |-> cst, delta |-> delta],
                              [first |-> "y", cst |-> 0 - cst, delta |-> delta] >>

\* the cost of values vx, vy under the posted constraints, forbidden from
\* MAX_COST on
RECURSIVE PostedCost(_, _, _)
PostedCost(posted, vx, vy) ==
    IF posted = << >> THEN 0
    ELSE LET p == Head(posted)
             c == IF p.first = "x" THEN Supxyc(vx, vy, p.cst, p.delta)
                  ELSE Supxyc(vy, vx, p.cst, p.delta)
         IN MinOf(MAX_COST, c + PostedCost(Tail(posted), vx, vy))

\* a keyword and its two parameters are about to be read
ArithStart(funcName, cst, delta) ==
    [phase |-> "keyword", funcName |-> funcName, cst |-> cst, delta |-> delta,
     loader |-> "", posted |-> << >>]

InitArith ==
    /\ \E funcName \in ArithKeywords, cst \in ArithCsts, delta \in ArithDeltas :
          ld = ArithStart(funcName, cst, delta)
    /\ rd = RdIdle
    /\ ChanStart(CHOOSE c \in Cfgs : c.hasP /\ c.hasN, FALSE)

\* the CFN loader reads the function
ArithCfn ==
    /\ ld.phase = "keyword"
    /\ ld' = [ld EXCEPT !.phase = "posted", !.loader = "cfn",
                        !.posted = cfnArithmetic(ld.funcName, ld.cst, ld.delta)]
    /\ UNCHANGED <<chanVars, rd>>

\* the legacy loader reads the function
ArithLegacy ==
    /\ ld.phase = "keyword"
    /\ ld' = [ld EXCEPT !.phase = "posted", !.loader = "legacy",
                        !.posted = legacyArithmetic(ld.funcName, ld.cst, ld.delta)]
    /\ UNCHANGED <<chanVars, rd>>

NextArith == ArithCfn \/ ArithLegacy

SpecArith == InitArith /\ [][NextArith]_vars

\* ------------------------------------------- merging unary functions
\* upper bounds in force when unary functions are read and merged
UnaryUbs == {MaxUnaryCost, MaxUnaryCost + 1}

\* the unary tables a file can give: one cost per value of the variable
UnaryTables == [1..MaxDom -> 0..MaxUnaryCost]

\* the costs a loader stores for the unary table raw read under ub: both
\* apply the medium-cost rule, the CFN loader then subtracts the minimum
UnaryStored(loader, raw, ub) ==
    LET m == [i \in DOMAIN raw |-> Medium(raw[i], ub)]
        minCost == MinSeq(m, m[1])
    IN IF loader = "cfn" THEN [i \in DOMAIN m |-> m[i] - minCost] ELSE m

\* CFNStreamReader: merge unary cost functions on the same variable
mergeUnaryCFs(unaryCFs, ub) == LegMerge(unaryCFs, << >>, ub)

\* read_legacy: merge unarycosts on the same variable
mergeUnaryconstrs(unaryconstrs, ub) == LegMerge(unaryconstrs, << >>, ub)

\* the loader before the first unary function
UnaryStart(loader, ub) ==
    [phase |-> "functions", loader |-> loader, ub |-> ub,
     unaryCFs |-> << >>, posted |-> << >>]

InitUnary ==
    /\ \E loader \in {"cfn", "legacy"}, ub \in UnaryUbs :
          ld = UnaryStart(loader, ub)
    /\ rd = RdIdle
    /\ ChanStart(CHOOSE c \in Cfgs : c.hasP /\ c.hasN, FALSE)

\* a unary cost function in extension on variable v is read
UnaryRead ==
    /\ ld.phase = "functions"
    /\ Len(ld.unaryCFs) < MaxUnary
    /\ \E v \in 0..1, raw \in UnaryTables :
          ld' = [ld EXCEPT !.unaryCFs =
                    Append(@, [var |-> v,
                               costs |-> UnaryStored(ld.loader, raw, ld.ub)])]
    /\ UNCHANGED <<chanVars, rd>>

\* end of a CFN file: the unary functions are merged, then posted
UnaryEndCfn ==
    /\ ld.phase = "functions" /\ ld.loader = "cfn"
    /\ ld' = [ld EXCEPT !.phase = "posted",
                        !.posted = mergeUnaryCFs(ld.unaryCFs, ld.ub)]
    /\ UNCHANGED <<chanVars, rd>>

\* end of a legacy file: the unary functions are merged, then posted
UnaryEndLegacy ==
    /\ ld.phase = "functions" /\ ld.loader = "legacy"
    /\ ld' = [ld EXCEPT !.phase = "posted",
                        !.posted = mergeUnaryconstrs(ld.unaryCFs, ld.ub)]
    /\ UNCHANGED <<chanVars, rd>>

NextUnary == UnaryRead \/ UnaryEndCfn \/ UnaryEndLegacy

SpecUnary == InitUnary /\ [][NextUnary]_vars

\* ------------------------------------------------ the CFN loader: steps
\* the header gave an upper bound as small as a cost of the file, or none
InitLoad ==
    /\ ld \in {LdStart(MaxFileCost), LdStart(MAX_COST)}
    /\ rd = RdIdle
    /\ ChanStart(CHOOSE c \in Cfgs : c.hasP /\ c.hasN, FALSE)

LdCanRead == ld.phase = "reading" /\ ld.n < MaxFuncs

\* WCSP::increaseLb(c) during the load: lb reaching ub is a contradiction
increaseLb(l, c) ==
    [l EXCEPT !.lb = @ + c,
              !.phase = IF c > 0 /\ l.lb + c >= l.ub THEN "contradiction" ELSE @]

\* a cost function of arity 0: readZeroAryCostFunction
LdReadZeroAry ==
    /\ LdCanRead
    /\ \E all \in BOOLEAN, given \in BOOLEAN, c \in CostVals, d \in CostVals :
          /\ all => d = 0
          /\ IF (~given) /\ all
             THEN ld' = [ld EXCEPT !.phase = "exit"]
             ELSE LET z == IF given THEN c ELSE d
                      sh == ZeroAryShift(z)
                  IN ld' = increaseLb(
                              [ld EXCEPT !.negCost = @ + sh.neg, !.n = @ + 1,
                                         !.file = Append(@, [arity |-> 0,
                                                             costs |-> [i \in {0} |-> z]])],
                              sh.cost)
    /\ UNCHANGED <<chanVars, rd>>

\* the loader state after a table read with result r
LdPosted(arity, x, r) ==
    IF r.err THEN [ld EXCEPT !.phase = "exit"]
    ELSE [ld EXCEPT
            !.negCost = @ - r.minCost,
            !.n = @ + 1,
            !.funcs = Append(@, [arity |-> arity, costs |-> r.costs]),
            !.file = Append(@, [arity |-> arity,
                                costs |-> FileTable(arity, x.all, x.defaultCost,
                                                    x.toks, x.costs)]),
            !.scaled = @ \/ Rescaled(x.all, x.defaultCost, x.toks, x.costs, ld.ub),
            !.dup = @ \/ Redefined(x.toks, arity),
            !.posMin = @ \/ r.minCost > 0]

\* a cost function of arity 1 to 3: readFunctionCostTable and its posting
LdReadTable ==
    /\ LdCanRead
    /\ \E arity \in 1..NARYPROJECTIONSIZE :
          /\ arity <= MaxArity
          /\ \E x \in TableTexts(arity) :
                ld' = LdPosted(arity, x,
                               readFunctionCostTable(arity, x.all, x.defaultCost,
                                                     x.toks, x.costs, ld.ub))
    /\ UNCHANGED <<chanVars, rd>>

\* a cost function of arity above 3: readNaryCostFunction
LdReadNary ==
    /\ LdCanRead
    /\ \E arity \in (NARYPROJECTIONSIZE + 1)..MaxArity :
          \E x \in TableTexts(arity) :
             ld' = LdPosted(arity, x,
                            readNaryCostFunction(arity, x.all, x.defaultCost,
                                                 x.toks, x.costs, ld.ub))
    /\ UNCHANGED <<chanVars, rd>>

\* the end of the functions section
LdEnd ==
    /\ ld.phase = "reading"
    /\ ld' = [ld EXCEPT !.phase = "done"]
    /\ UNCHANGED <<chanVars, rd>>

NextLoad == LdReadZeroAry \/ LdReadTable \/ LdReadNary \/ LdEnd

SpecLoad == InitLoad /\ [][NextLoad]_vars

RECURSIVE SumCosts(_, _)
SumCosts(fs, A) ==
    IF fs = << >> THEN 0
    ELSE Head(fs).costs[TupleIdx(A, Head(fs).arity)] + SumCosts(Tail(fs), A)

\* ------------------------------------------------ the file readers: steps
\* a header that negates the cost multiplier on '<'
headerMultiplier_OnLess(comparator, m) == IF comparator = "<" THEN m * (0 - 1) ELSE m

\* CFNStreamReader::readHeader: '>' negates the cost multiplier
headerMultiplier(comparator, m) == IF comparator = ">" THEN m * (0 - 1) ELSE m

readHeader(r, json, comparator) ==
    LET r1 == [r EXCEPT !.JSONMode = json, !.mustbe = comparator]
    IN IF comparator \in {"<", ">"}
       THEN [r1 EXCEPT !.costMultiplier = headerMultiplier(comparator, @),
                       !.phase = "variables"]
       ELSE RdFail(r1)

\* CFNStreamReader::readVariable on a domain size: a number, or a token that
\* is not a number; the list of variables then ends and the next token is
\* the opening brace of the functions (opens) or any other token
readVariable(r, size, isNumber, opens) ==
    IF isNumber
    THEN [RdCreated(r) EXCEPT !.vars = Append(@, size)]
    ELSE LET r1 == [RdCreated([r EXCEPT !.yelled = TRUE]) EXCEPT
                       !.vars = Append(@, 0)]
         IN IF opens THEN [r1 EXCEPT !.phase = "functions"] ELSE RdFail(r1)

\* the scope names some variable twice
Repeats(scope) == \E j, k \in 1..Len(scope) : j # k /\ scope[j] = scope[k]

\* the scope without the later occurrences of a variable
RECURSIVE Uniq(_)
Uniq(scope) ==
    IF scope = << >> THEN << >>
    ELSE LET rest == Uniq(SubSeq(scope, 1, Len(scope) - 1))
             last == scope[Len(scope)]
         IN IF \E j \in 1..Len(rest) : rest[j] = last THEN rest
            ELSE Append(rest, last)

\* a cost function posted by a reader that is followed for its scopes only
RdPost(r, scope) ==
    [r EXCEPT !.n = @ + 1,
              !.posted = Append(@, [name |-> "", scope |-> scope,
                                    costs |-> << >>, shared |-> FALSE])]

\* WCSP::read_legacy and WCSP::read_uai2008 on a binary or ternary scope
readChecked(r, scope) ==
    IF Repeats(scope) THEN RdFail([r EXCEPT !.n = @ + 1]) ELSE RdPost(r, scope)

\* WCSP::read_wcnf on a clause: a literal on a variable already in the
\* clause is dropped, or makes the clause a tautology, which is skipped
Tautology(lits) ==
    \E j, k \in 1..Len(lits) : lits[j].var = lits[k].var /\ lits[j].neg # lits[k].neg

readClause(r, lits) ==
    IF Tautology(lits) THEN [r EXCEPT !.n = @ + 1, !.tautologies = @ + 1]
    ELSE IF lits = << >> THEN [r EXCEPT !.n = @ + 1, !.inclowerbound = @ + 1]
    ELSE RdPost(r, Uniq([j \in 1..Len(lits) |-> lits[j].var]))

\* WCSP::read_opb on a product of variables of the objective
readTerm(r, names) == RdPost(r, Uniq(names))

InitFile ==
    /\ rd \in {RdStart("cfn", 1), RdStart("cfn", 2)}
              \cup {RdStart(f, 1) : f \in Formats \ {"cfn"}}
    /\ ld = LdStart(MAX_COST)
    /\ ChanStart(CHOOSE c \in Cfgs : c.hasP /\ c.hasN, FALSE)

RdHeader ==
    /\ rd.format = "cfn" /\ rd.phase = "header"
    /\ \E json \in BOOLEAN, comparator \in {"<", ">", "="} :
          rd' = readHeader(rd, json, comparator)
    /\ UNCHANGED <<chanVars, ld>>

RdVariable ==
    /\ rd.phase = "variables"
    /\ Len(rd.vars) < MaxFileVars
    /\ \E size \in 1..MaxDom, isNumber \in BOOLEAN, opens \in BOOLEAN :
          rd' = readVariable(rd, size, isNumber, opens)
    /\ UNCHANGED <<chanVars, ld>>

\* the closing brace of the variables; the functions section opens
RdVariablesEnd ==
    /\ rd.phase = "variables"
    /\ rd' = [rd EXCEPT !.phase = "functions"]
    /\ UNCHANGED <<chanVars, ld>>

RdCanRead(format) ==
    rd.format = format /\ rd.phase = "functions" /\ rd.n < MaxFileFuncs

RdFunction ==
    /\ RdCanRead("cfn")
    /\ \E fn \in FunctionTexts(rd.vars) : rd' = readCostFunction(rd, fn)
    /\ UNCHANGED <<chanVars, ld>>

RdLegacyFunction ==
    /\ RdCanRead("wcsp")
    /\ \E scope \in FileScopes(Len(rd.vars)) :
          Len(scope) >= 2 /\ rd' = readChecked(rd, scope)
    /\ UNCHANGED <<chanVars, ld>>

RdUaiFunction ==
    /\ RdCanRead("uai")
    /\ \E scope \in FileScopes(Len(rd.vars)) :
          Len(scope) >= 2 /\ rd' = readChecked(rd, scope)
    /\ UNCHANGED <<chanVars, ld>>

RdWcnfClause ==
    /\ RdCanRead("wcnf")
    /\ \E scope \in FileScopes(Len(rd.vars)) \cup {<< >>},
          negs \in [1..NARYPROJECTIONSIZE -> BOOLEAN] :
          rd' = readClause(rd, [j \in 1..Len(scope) |->
                                   [var |-> scope[j], neg |-> negs[j]]])
    /\ UNCHANGED <<chanVars, ld>>

RdOpbTerm ==
    /\ RdCanRead("opb")
    /\ \E names \in FileScopes(Len(rd.vars)) : rd' = readTerm(rd, names)
    /\ UNCHANGED <<chanVars, ld>>

\* the end of the functions
RdEnd ==
    /\ rd.phase = "functions"
    /\ rd' = [rd EXCEPT !.phase = "done",
                        !.nbclauses = IF rd.format = "wcnf" THEN rd.n ELSE @]
    /\ UNCHANGED <<chanVars, ld>>

NextFile ==
    \/ RdHeader \/ RdVariable \/ RdVariablesEnd \/ RdFunction
    \/ RdLegacyFunction \/ RdUaiFunction \/ RdWcnfClause \/ RdOpbTerm \/ RdEnd

SpecFile == InitFile /\ [][NextFile]_vars

\* ======================================================== properties
CbX == obs.lastCbExit
PropX == obs.lastPropExit
EvalX == obs.evalReport

\* C1 (as the code has it): when a callback exits, the guard is released
\* if the event came from the master or the callback leaves with a
\* contradiction; a slave-originated callback that returns normally has
\* taken the guard again with protect(false) and returns holding it.
C1_GuardAtCallbackExit ==
    CbX.valid =>
        (CbX.prot <=> (CbX.w # MasterIdx /\ CbX.how = "normal"))

\* a slave-originated callback has returned normally
C1_SlaveCallbackReturned ==
    CbX.valid /\ CbX.w # MasterIdx /\ CbX.how = "normal" /\ CbX.prot

\* C1 as stated: the guard is released at every exit of every callback
C1_GuardReleasedAtEveryExit == CbX.valid => ~CbX.prot

\* C2 as stated: while a root event of WCSP W is handled, no callback
\* applies a variable operation to W
C2_NoReentryIntoOrigin == ~obs.reentry

\* C3 as stated: for one root event, every WCSP of the family gets the
\* operation at most once
C3_AtMostOncePerWcsp == \A w \in WIds : obs.fwdCount[w] <= 1

\* the domains of channelled variable x were the same in the master and
\* in every slave
Synced(d, x) == \A s \in Slaves : d[s][x] = d[MasterIdx][x]

\* the root callback of a master event on a synchronised variable returned
C4_Case ==
    /\ CbX.valid /\ CbX.root /\ CbX.w = MasterIdx /\ CbX.how = "normal"
    /\ Synced(CbX.pre, CbX.op.x)

\* the slaves' variable has the domain the operation gives when applied
\* to it directly
C4_SlavesFollow ==
    \A s \in Slaves :
        CbX.dom[s][CbX.op.x] =
            Effect(CbX.pre[s][CbX.op.x], CbX.op.kind, CbX.op.v).nd

\* C4 (as the code has it): after the root callback of a master event on
\* a synchronised variable returns normally, and the meta-constraint is
\* connected, every slave's variable has the domain that the same
\* operation gives when applied to it directly.
C4_FidelityWhenConnected == (C4_Case /\ CbX.conn) => C4_SlavesFollow

\* a master event was forwarded to two slaves and changed their domains
C4_Forwarded ==
    /\ C4_Case /\ CbX.conn
    /\ cfg.hasP /\ cfg.hasN
    /\ \A s \in Slaves : CbX.dom[s][CbX.op.x] # CbX.pre[s][CbX.op.x]

\* C4 as stated: the same, for every registered meta-constraint
C4_FidelityAlways == C4_Case => C4_SlavesFollow

\* C5: when a forward to slave T raises a contradiction, the callback
\* leaves with T's whenContradiction done, the guard released and the
\* contradiction in flight.
C5_ForwardContradiction ==
    (CbX.valid /\ CbX.fwdT # Null) =>
        (CbX.fwdT \in CbX.cleaned /\ ~CbX.prot /\ CbX.exc)

\* a forward raised a contradiction and the callback has left
C5_ForwardFailed ==
    CbX.valid /\ CbX.fwdT # Null /\ CbX.how = "contradiction" /\ exc

\* C6 as stated: a contradiction leaves propagate() only after the
\* whenContradiction of both slaves and with the guard released
C6_PropagateCleansUp ==
    (PropX.valid /\ PropX.how = "contradiction") =>
        (PropX.cleaned = Slaves /\ ~PropX.prot)

\* C7: when a root call is over, normally or with a contradiction, and
\* when a master-originated root callback or an eval has returned, the
\* ten feature flags have the values they had before the call.
C7_FlagsRestored ==
    /\ (stack = << >>) => (guard.ToulBar2 = obs.callFlags)
    /\ (CbX.valid /\ CbX.root /\ CbX.w = MasterIdx) => CbX.flagsOk
    /\ PropX.valid => PropX.flagsOk
    /\ EvalX.valid => EvalX.flagsOk

\* a root call that nested a slave-originated callback is over
C7_CallOverAfterNesting ==
    /\ stack = << >>
    /\ calls > 0
    /\ CbX.valid /\ CbX.w # MasterIdx /\ CbX.how = "normal"
    /\ guard.ToulBar2 = UserFlags
    /\ UserFlags # Disabled

\* C8: eval leaves the store depth, the domains and the lower bounds as
\* they were; on return the guard is released, the hooks are installed
\* and the slaves' propagation-active flags are as before.
C8_EvalLeavesNoTrace ==
    EvalX.valid =>
        /\ EvalX.depthSame /\ EvalX.domSame /\ EvalX.lbSame
        /\ ~EvalX.prot /\ EvalX.hooks /\ EvalX.activeSame

\* an eval whose assignLS raised a contradiction has returned, the store
\* being at depth 1
C8_EvalThrew ==
    EvalX.valid /\ EvalX.threw /\ Len(storeStack) = 1 /\ EvalX.cost = "MAX_COST"

\* C9 as stated, for files that list no tuple twice and whose costs are
\* all below the upper bound: after the load, the stored costs of every
\* complete assignment plus lb minus negCost are the costs of the file
C9_CostPreserved ==
    (ld.phase = "done" /\ ~ld.dup /\ ~ld.scaled) =>
        \A A \in Assignments :
            SumCosts(ld.funcs, A) + ld.lb - ld.negCost = SumCosts(ld.file, A)

C11_DuplicateRejected == ~ld.dup

\* C12: a function that references the table of a named function defined
\* before it is posted on its own scope with that function's stored table,
\* and a load with such a reference between scopes of different arities
\* or domain sizes does not end normally (files without a format error)
C12_SharedTablePosted ==
    (rd.phase = "done" /\ ~rd.yelled) =>
       \A j \in 1..Len(rd.refs) :
          rd.refs[j].prev =>
             /\ rd.refs[j].sizes
             /\ \E k \in 1..Len(rd.posted) :
                   /\ rd.posted[k].shared
                   /\ rd.posted[k].scope = rd.refs[j].scope
                   /\ rd.posted[k].costs = rd.refs[j].table

\* C13: once the CFN loader has reported a format error, the load has ended
\* in the error outcome and no variable or cost function was created after
\* the report
C13_ErrorEndsLoad == rd.yelled => (rd.phase = "exit" /\ ~rd.late)

\* C14: every posted binary or ternary cost function has pairwise distinct
\* scope variables, whatever the format of the file (files without another
\* format error)
C14_DistinctScopes ==
    ~rd.yelled =>
    \A k \in 1..Len(rd.posted) :
       Len(rd.posted[k].scope) \in {2, 3} => ~Repeats(rd.posted[k].scope)

\* C15 (as the code has it): once the CFN header is read, a bound starting
\* with '<' has left the cost multiplier unchanged and a bound starting
\* with '>' has negated it
C15_HeaderComparator ==
    (rd.format = "cfn" /\ rd.phase \notin {"header", "exit"}) =>
       /\ rd.mustbe = "<" => rd.costMultiplier = rd.mult0
       /\ rd.mustbe = ">" => rd.costMultiplier = (0 - rd.mult0)

\* a header with '>' was read under multiplier 2 and the load went on
C15_GreaterRead ==
    /\ rd.format = "cfn" /\ rd.phase = "functions"
    /\ rd.mustbe = ">" /\ rd.mult0 = 2 /\ rd.costMultiplier = (0 - 2)
    /\ Len(rd.vars) > 0

\* C15 as stated: '<' negates the multiplier and '>' leaves it unchanged
C15_LessNegates ==
    (rd.format = "cfn" /\ rd.phase \notin {"header", "exit"}) =>
       /\ rd.mustbe = "<" => rd.costMultiplier = (0 - rd.mult0)
       /\ rd.mustbe = ">" => rd.costMultiplier = rd.mult0

\* C16: whenever assign(i) or propagate() has returned normally and the
\* constraint is universal (finite, both slaves present, their lower bounds
\* inside the containment), the constraint is deconnected
C16_UniversalDeconnected ==
    /\ (obs.lastPropExit.valid /\ obs.lastPropExit.how = "normal") =>
          (obs.lastPropExit.univ => ~obs.lastPropExit.conn)
    /\ obs.lastAssignExit.valid =>
          (obs.lastAssignExit.univ => ~obs.lastAssignExit.conn)

\* C17: in the scenario of one slave over two Boolean variables with lb = 0
\* and ub = 1, when the one propagate() with x and y unassigned has returned
\* and no value was removed from any domain, the constraint is deconnected
C17_S5Deconnects ==
    (/\ obs.lastPropExit.valid /\ obs.lastPropExit.how = "normal"
     /\ \A w \in WIds, x \in Scope : obs.pre[w][x] = Boolean /\ dom[w][x] = Boolean)
       => ~obs.lastPropExit.conn

\* C18: nonassigned stays within 0..arity; assign(i) takes one from it when
\* position i is connected and leaves it unchanged when position i is
\* already disconnected; reconnect() of a deconnected constraint sets it
\* back to arity; restoring the store gives it the value saved at that
\* depth; no other step changes it
C18_NonAssigned ==
    [][/\ nonassigned \in 0..Arity
       /\ nonassigned' \in 0..Arity
       /\ IF Running /\ Top.proc = "gcassign"
          THEN nonassigned' = IF connVar[Top.x] THEN nonassigned - 1
                              ELSE nonassigned
          ELSE IF Idle /\ ~connected /\ connVar' # connVar
          THEN nonassigned' = Arity
          ELSE IF exc /\ stack = << >> /\ storeStack # << >>
          THEN nonassigned' = storeStack[Len(storeStack)].nonassigned
          ELSE nonassigned' = nonassigned]_vars

\* an assign on a connected position deconnected the constraint with one
\* variable still to assign, and the solver has reconnected it since
C18_ReconnectedAfterAssign ==
    /\ Idle
    /\ obs.lastAssignExit.valid
    /\ obs.lastAssignExit.linked /\ ~obs.lastAssignExit.conn
    /\ assigned(MasterIdx, obs.lastAssignExit.i)
    /\ connected
    /\ nonassigned = Arity

\* C19: the forwards of one callback go to the peers in ascending order of
\* WCSP index, whichever index the slave and the negated slave have: here
\* for the forwards made for one entry of the map of meta-constraints
C19_PeersAscending ==
    \A i, j \in 1..Len(obs.fwdOrder) :
       (i < j /\ obs.fwdOrder[i].k = obs.fwdOrder[j].k) =>
          obs.fwdOrder[i].t < obs.fwdOrder[j].t

\* the WCSPs of the family: the master and its slaves
Family == {MasterIdx} \cup Slaves

\* the callbacks that have been entered and have not returned
CbDepth == Cardinality({i \in 1..Len(stack) : stack[i].proc = "cb"})

C21_StoredWithinTop ==
    ld.phase = "stored" => ld.stored \in 0..MAX_COST

\* C22 (as the code has it): the 4-queens example loads with negCost = 0;
\* its complete assignments of cost below the upper bound 5 are the queens
\* on rows 1, 3, 0, 2 at cost 2 and on rows 2, 0, 3, 1 at cost 0, so that
\* the least cost is 0
C22_QueensOptimum ==
    (ld.name = "4-WQUEENS" /\ ld.phase \in {"done", "evaluated"}) =>
       /\ ld.ub = 5 /\ ld.negCost = 0
       /\ LegFeasible(ld) = {[a |-> <<1, 3, 0, 2>>, cost |-> 2],
                             [a |-> <<2, 0, 3, 1>>, cost |-> 0]}
       /\ LegOptimum(ld) = 0

\* the ten functions are read and the queens on rows 2, 0, 3, 1 cost 0
C22_QueensPlacedFree ==
    /\ ld.name = "4-WQUEENS" /\ ld.phase = "evaluated"
    /\ Len(ld.binary) = 6 /\ Len(ld.unary) = 4
    /\ ld.assignment = <<2, 0, 3, 1>>
    /\ ld.cost = 0

\* C22 as stated: the least cost is 2
C22_QueensOptimumTwo ==
    (ld.name = "4-WQUEENS" /\ ld.phase \in {"done", "evaluated"}) =>
       (ld.ub = 5 /\ ld.negCost = 0 /\ LegOptimum(ld) = 2)

\* the complete assignments in which two variables have the same value
LegRepeats(l) ==
    { a \in LegAssignments(l) : \E i, j \in DOMAIN a : i < j /\ a[i] = a[j] }

AllDiffName == "AllDifferentDecomposedIntoBinaryConstraints"

\* C23 (as the code has it): the shared-table example loads without error,
\* its six binary functions all have the shared table, the complete
\* assignments of cost 0 are the 24 assignments without a repeated value,
\* and every assignment that repeats a value costs at least the upper
\* bound 1
C23_AllDiffShared ==
    ld.name = AllDiffName =>
       /\ ld.phase # "exit"
       /\ ld.phase \in {"done", "evaluated"} =>
             /\ ld.ub = 1
             /\ Len(ld.binary) = 6
             /\ \A k \in 1..6 : ld.binary[k].costs = ld.binary[1].costs
             /\ {a \in LegAssignments(ld) : LegCost(ld, a) = 0}
                   = LegAssignments(ld) \ LegRepeats(ld)
             /\ Cardinality(LegAssignments(ld) \ LegRepeats(ld)) = 24
             /\ \A a \in LegRepeats(ld) : LegCost(ld, a) >= 1

\* the example is loaded and an assignment that repeats value 0 on the
\* variables of a reused table is found forbidden
C23_RepeatForbidden ==
    /\ ld.name = AllDiffName /\ ld.phase = "evaluated"
    /\ Len(ld.sharedCosts) = 1 /\ Len(ld.binary) = 6
    /\ ld.assignment = <<1, 2, 0, 0>>
    /\ ld.cost >= ld.ub

\* C23 as stated: exactly one complete assignment has cost 0
C23_OneFreeAssignment ==
    (ld.name = AllDiffName /\ ld.phase \in {"done", "evaluated"}) =>
       /\ Cardinality({a \in LegAssignments(ld) : LegCost(ld, a) = 0}) = 1
       /\ \A a \in LegRepeats(ld) : LegCost(ld, a) >= 1

\* C24: when a WCNF file is read, a clause with a literal and its negation
\* posts no cost function and adds nothing to the lower bound, and the
\* number of clauses reported at the end is the number of clauses of the
\* file less the number of such clauses
C24_TautologiesNotCounted ==
    (rd.format = "wcnf" /\ rd.phase = "done") =>
       /\ Len(rd.posted) + rd.inclowerbound = rd.n - rd.tautologies
       /\ rd.nbclauses = rd.n - rd.tautologies

\* C25: for each keyword >=, >, <=, <, = and the same parameters, the
\* constraint posted by the CFN loader and the one posted by the legacy
\* loader have the same cost on every pair of values, the documented one:
\* x <= y + cst for "<=" and x < y + cst for "<"
C25_SameArithmetic ==
    ld.phase = "posted" =>
       \A vx, vy \in ArithValues :
          /\ PostedCost(ld.posted, vx, vy)
                = DocumentedCost(ld.funcName, vx, vy, ld.cst, ld.delta)
          /\ PostedCost(cfnArithmetic(ld.funcName, ld.cst, ld.delta), vx, vy)
                = PostedCost(legacyArithmetic(ld.funcName, ld.cst, ld.delta), vx, vy)

\* C26: whenever a callback exits, on normal return or on a contradiction
\* raised by a forwarded operation or by the master operation, the
\* propagation-active flag of the originating WCSP is enabled again
C26_ReactivatedOnExit ==
    obs.lastCbExit.valid => obs.lastCbExit.activeW


C28_EvalInBounds ==
    LET e == obs.evalReport IN
    e.valid =>
       /\ e.cost \in {"MIN_COST", "MAX_COST"}
       /\ (e.cost = "MIN_COST") <=>
             (cfg.lb <= e.slaveCost /\ e.slaveCost < cfg.ub)

\* an eval probing the negated slave alone has accepted a tuple
C28_NegatedOnlyAccepts ==
    /\ obs.evalReport.valid
    /\ ~cfg.hasP /\ cfg.hasN
    /\ ~obs.evalReport.threw
    /\ obs.evalReport.cost = "MIN_COST"


\* C29: no guard assertion fails: the guard is held whenever an operation
\* is forwarded to a slave, and it is not held whenever protect() is called
C29_NoAssertionFails ==
    ~obs.assertFail

\* a slave-originated callback, nested in a forward of a master event, has
\* released the guard, woken the master, taken the guard again and returned
C29_NestedSlaveEventReturned ==
    /\ obs.lastCbExit.valid
    /\ obs.lastCbExit.w # MasterIdx
    /\ obs.lastCbExit.how = "normal"
    /\ ~obs.lastCbExit.root
    /\ obs.lastCbExit.prot
    /\ obs.rootW = MasterIdx


\* sum of the costs that the unary functions us on variable v give to value i
RECURSIVE UnarySum(_, _, _)
UnarySum(us, v, i) ==
    IF us = << >> THEN 0
    ELSE (IF Head(us).var = v THEN Head(us).costs[i] ELSE 0)
         + UnarySum(Tail(us), v, i)

\* the unary functions us in every order
UnaryOrders(us) ==
    { [k \in 1..Len(us) |-> us[f[k]]] :
        f \in { g \in [1..Len(us) -> 1..Len(us)] :
                  \A a, b \in 1..Len(us) : g[a] = g[b] => a = b } }

\* the merged functions p give value i of variable v a cost below ub
\* exactly when sum is below ub, and that cost is then sum
UnaryAgrees(p, v, i, sum, ub) ==
    \A k \in 1..Len(p) :
       p[k].var = v =>
          /\ (p[k].costs[i] < ub) <=> (sum < ub)
          /\ (sum < ub) => (p[k].costs[i] = sum)

\* C30: after the CFN or legacy loader has merged the unary functions,
\* each variable with unary functions has exactly one posted, and for each
\* value the merged cost is below ub exactly when the sum of the
\* contributed costs is, and then equals it, in whatever order the unary
\* functions appear in the file
C30_MergeIsSum ==
    (ld.phase = "posted") =>
       \A v \in 0..1 :
          LET mine == {k \in 1..Len(ld.unaryCFs) : ld.unaryCFs[k].var = v} IN
          /\ Cardinality({k \in 1..Len(ld.posted) : ld.posted[k].var = v})
                = (IF mine = {} THEN 0 ELSE 1)
          /\ \A i \in 1..MaxDom :
                /\ UnaryAgrees(ld.posted, v, i, UnarySum(ld.unaryCFs, v, i), ld.ub)
                /\ \A us \in UnaryOrders(ld.unaryCFs) :
                      UnaryAgrees(LegMerge(us, << >>, ld.ub), v, i,
                                  UnarySum(ld.unaryCFs, v, i), ld.ub)

\* three unary functions on one variable were merged: on one value their
\* costs, each below ub, add up to ub or more; on the other they stay below
C30_ThreeMergedAcrossUb ==
    /\ ld.phase = "posted"
    /\ Len(ld.unaryCFs) = 3 /\ Len(ld.posted) = 1
    /\ \A k \in 1..3 : ld.unaryCFs[k].costs[1] < ld.ub
    /\ ld.posted[1].costs[1] >= ld.ub
    /\ ld.posted[1].costs[2] > 0 /\ ld.posted[1].costs[2] < ld.ub

====
